---- MODULE Spec2Model ----
(***************************************************************************)
(* Job identity, dedup/merge, filters, store and pipeline driver of the    *)
(* job-board shared scripts.                                               *)
(*                                                                         *)
(* JavaScript strings are modelled as sequences of one-character strings,  *)
(* so that includes(), toLowerCase() and the regular-expression replaces   *)
(* are computed character by character.  A missing (undefined) or empty    *)
(* string field is the empty sequence: every read in the modelled code is  *)
(* of the form (x || '') or a truthiness test, which cannot tell them      *)
(* apart.                                                                  *)
(***************************************************************************)
EXTENDS Integers, Sequences, FiniteSets, TLC

VARIABLES
    mPersisted, mFresh, mResult, mPc,       \* mergeJobs(persisted, fresh) call
    dInput, dIsArray, dJobs, dUnique, dPc,  \* filterDuplicates(jobs) call
    cJob, cWithConfig, cVerdict, cPc,       \* one job handed to the filters
    fsDir,                                  \* .github/data exists
    fsCur, fsCurTmp,                        \* current_jobs.json, current_jobs.tmp.json
    fsNew, fsNewTmp,                        \* new_jobs.json, new_jobs.tmp.json
    pc,                                     \* position of the processJobs run
    runJobs, runPersisted, runMerged,        \* locals of processJobs
    runUS, runNonSenior, runCurrent, runArchived,
    clock, ticks,                             \* wall clock (hours), clock advances so far
    trace,                                  \* steps the run has completed, in order
    storeAtStart,                           \* current_jobs.json when the run began
    readerSaw, \* last contents a reader got from current_jobs.json
    aInput, aNow, aVerdict, aPc, \* one date handed to the age filters
    uOption, uHasKey, uFile, uPc, uUsage, uIssued, uRuns, uReader, sFile, sTmp, sSeenJobs, sPc, sReader, \* fetcher runs and usage file; seen-IDs save
    rConfig, rAttempt, rDelay, rPc, rCalls, rWaits, rLast, rThrown, \* one withRetry call
    kTitle, kDescription, kKeywords, kLevels, kVerdict, kPc, \* one classifier call with a supplied table
    jPartsA, jPartsB, jCarrier, jOther, jIds, jPc, \* two jobs handed to the id generators
    pTitle, pCompany, pCity, pShape, pPrints, pPc,    \* two jobs handed to the fingerprint functions
    nFn, nJob, nOutcome, nPc, \* one identity function called with one argument
    qHeap, qModule, qExports, qLast, qCalls, qSeen, \* the company database of utils and its exports
    lLevel, lLines, lExit, lLast, lCalls, \* the logger: level, lines written, process exit
    tStore, tClock, tTicks, tRuns, tLast, tPrev, tThrown    \* processJobs runs that follow one another

mergeVars == <<mPersisted, mFresh, mResult, mPc>>
dedupVars == <<dInput, dIsArray, dJobs, dUnique, dPc>>
filterVars == <<cJob, cWithConfig, cVerdict, cPc>>
ageVars == <<aInput, aNow, aVerdict, aPc>>
usageVars == <<uOption, uHasKey, uFile, uPc, uUsage, uIssued, uRuns, uReader, sFile, sTmp, sSeenJobs, sPc, sReader>>
retryVars == <<rConfig, rAttempt, rDelay, rPc, rCalls, rWaits, rLast, rThrown>>
classifyVars == <<kTitle, kDescription, kKeywords, kLevels, kVerdict, kPc>>
jobIdVars == <<jPartsA, jPartsB, jCarrier, jOther, jIds, jPc>>
identityVars == <<pTitle, pCompany, pCity, pShape, pPrints, pPc, nFn, nJob, nOutcome, nPc>>
companyVars == <<qHeap, qModule, qExports, qLast, qCalls, qSeen>>
loggerVars == <<lLevel, lLines, lExit, lLast, lCalls>>
runsVars == <<tStore, tClock, tTicks, tRuns, tLast, tPrev, tThrown>>
vars == <<runsVars, loggerVars, companyVars, identityVars, jobIdVars, classifyVars, retryVars, usageVars, ageVars, mergeVars, dedupVars, filterVars,
          fsDir, fsCur, fsCurTmp, fsNew, fsNewTmp, pc,
          runJobs, runPersisted, runMerged, runUS, runNonSenior, runCurrent, runArchived,
          clock, ticks, trace, storeAtStart, readerSaw>>

----------------------------------------------------------------------------
(* Bounds of the model *)

MaxMergeLen == 2         \* longest persisted / fresh list handed to mergeJobs
MaxDedupLen == 4         \* longest list handed to filterDuplicates
MaxBatchLen == 2         \* longest fresh batch handed to processJobs
MaxStoreLen == 2         \* longest job array in current_jobs.json before a run
MaxTicks == 1            \* clock advances during one run
MaxAgeValue == 340       \* largest n of a relative age string <n><unit>
MaxQuota == 2            \* largest maxRequestsPerDay option given to the fetcher
MaxRuns == 3             \* fetchAllJSearchJobs runs in one day
MaxAttemptsCfg == 3      \* largest maxAttempts given to withRetry
MaxInitCalls == 3        \* initCompanyDatabase calls after the module is loaded
MaxLogCalls == 2         \* calls of log functions in one process
MaxPipelineRuns == 2     \* processJobs runs that follow one another
MaxRunTicks == 2         \* clock advances during and between those runs

----------------------------------------------------------------------------
(* Generic sequence helpers *)

SeqsUpTo(S, n) == UNION {[1..k -> S] : k \in 0..n}

Range(s) == {s[i] : i \in 1..Len(s)}

\* Array.prototype.filter
RECURSIVE SeqFilter(_, _)
SeqFilter(s, keep) ==
    IF s = <<>> THEN <<>>
    ELSE IF Head(s) \in keep THEN <<Head(s)>> \o SeqFilter(Tail(s), keep)
         ELSE SeqFilter(Tail(s), keep)

----------------------------------------------------------------------------
(* JavaScript string primitives over character sequences *)

EmptyStr == <<>>

\* a property that is absent from the object (undefined); the value is a
\* sequence no string of the model equals
JsUndefined == <<"(undefined)">>

UpperLetters == <<"A", "B", "C", "D", "E", "F", "G", "H", "I", "J", "K", "L", "M",
                  "N", "O", "P", "Q", "R", "S", "T", "U", "V", "W", "X", "Y", "Z">>
LowerLetters == <<"a", "b", "c", "d", "e", "f", "g", "h", "i", "j", "k", "l", "m",
                  "n", "o", "p", "q", "r", "s", "t", "u", "v", "w", "x", "y", "z">>
DigitChars == {"0", "1", "2", "3", "4", "5", "6", "7", "8", "9"}

\* the regular-expression classes \s and \w
SpaceChars == {" ", "\t", "\n", "\r"}
WordChars == Range(UpperLetters) \cup Range(LowerLetters) \cup DigitChars \cup {"_"}

LowerOf(c) ==
    IF \E i \in 1..Len(UpperLetters) : UpperLetters[i] = c
    THEN LowerLetters[CHOOSE i \in 1..Len(UpperLetters) : UpperLetters[i] = c]
    ELSE c

\* String.prototype.toLowerCase
ToLower(s) == [i \in 1..Len(s) |-> LowerOf(s[i])]

\* String.prototype.includes
Includes(s, sub) ==
    \E i \in 0..(Len(s) - Len(sub)) : SubSeq(s, i + 1, i + Len(sub)) = sub

StartsWith(s, pre) == Len(pre) <= Len(s) /\ SubSeq(s, 1, Len(pre)) = pre
EndsWith(s, suf) == Len(suf) <= Len(s) /\ SubSeq(s, Len(s) - Len(suf) + 1, Len(s)) = suf

RECURSIVE TrimLeft(_)
TrimLeft(s) == IF s # <<>> /\ Head(s) \in SpaceChars THEN TrimLeft(Tail(s)) ELSE s

RECURSIVE TrimRight(_)
TrimRight(s) ==
    IF s # <<>> /\ s[Len(s)] \in SpaceChars THEN TrimRight(SubSeq(s, 1, Len(s) - 1)) ELSE s

\* String.prototype.trim
Trim(s) == TrimRight(TrimLeft(s))

RECURSIVE DropWhileIn(_, _)
DropWhileIn(s, cls) == IF s # <<>> /\ Head(s) \in cls THEN DropWhileIn(Tail(s), cls) ELSE s

\* s.replace(/[cls]+/g, rep): every maximal run of characters of cls becomes rep
RECURSIVE ReplaceRuns(_, _, _)
ReplaceRuns(s, cls, rep) ==
    IF s = <<>> THEN <<>>
    ELSE IF Head(s) \in cls THEN rep \o ReplaceRuns(DropWhileIn(s, cls), cls, rep)
         ELSE <<Head(s)>> \o ReplaceRuns(Tail(s), cls, rep)

\* s.replace(/[^keep]/g, rep): every character outside keep becomes rep
ReplaceOutside(s, keep, rep) ==
    [i \in 1..Len(s) |-> IF s[i] \in keep THEN s[i] ELSE rep]

\* s.replace(/^-|-$/g, ''): one leading and one trailing hyphen are removed
StripEdgeHyphens(s) ==
    LET a == IF s # <<>> /\ Head(s) = "-" THEN Tail(s) ELSE s
    IN  IF a # <<>> /\ a[Len(a)] = "-" THEN SubSeq(a, 1, Len(a) - 1) ELSE a

\* template-literal / join concatenation of parts with a separator
RECURSIVE Join(_, _)
Join(parts, sep) ==
    IF parts = <<>> THEN <<>>
    ELSE IF Len(parts) = 1 THEN parts[1]
         ELSE parts[1] \o sep \o Join(Tail(parts), sep)

\* s.replace(/\s+(w1|w2|...)\.?$/i, '') on an already lower-cased or mixed
\* case string: when the string ends in one of the words (optionally followed
\* by a dot) preceded by whitespace, that word and the whole whitespace run
\* before it are removed.  dot is TRUE when the pattern allows the final dot.
StripSuffixWord(s, words, dot) ==
    LET low == ToLower(s)
        tails == {w \in words : EndsWith(low, w)}
                   \cup (IF dot THEN {w \o <<".">> : w \in {x \in words : EndsWith(low, x \o <<".">>)}}
                         ELSE {})
        ok == {t \in tails : Len(s) > Len(t) /\ s[Len(s) - Len(t)] \in SpaceChars}
    IN  IF ok = {} THEN s
        ELSE LET t == CHOOSE x \in ok : \A y \in ok : Len(y) <= Len(x)
             IN  TrimRight(SubSeq(s, 1, Len(s) - Len(t)))

----------------------------------------------------------------------------
(* mergeJobs: a Map keyed by id, persisted first, then fresh *)

\* JavaScript truthiness of a string-or-undefined value
Truthy(s) == s # EmptyStr /\ s # JsUndefined

\* Map.prototype.set on an insertion-ordered map kept as a sequence of
\* [key, value] entries: an existing key keeps its position and gets the new
\* value, a new key is appended.
MapSet_keepFirst(m, k, v) ==
    IF \E i \in 1..Len(m) : m[i].key = k
    THEN m
    ELSE Append(m, [key |-> k, value |-> v])

MapSet(m, k, v) ==
    IF \E i \in 1..Len(m) : m[i].key = k
    THEN [i \in 1..Len(m) |-> IF m[i].key = k THEN [key |-> k, value |-> v] ELSE m[i]]
    ELSE Append(m, [key |-> k, value |-> v])

\* the same loop without the truthiness test on job.id
RECURSIVE InsertAll_noIdCheck(_, _)
InsertAll_noIdCheck(m, jobs) ==
    IF jobs = <<>> THEN m
    ELSE InsertAll_noIdCheck(MapSet(m, Head(jobs).id, Head(jobs)), Tail(jobs))

\* jobs.forEach(job => { if (job.id) jobMap.set(job.id, job) })
RECURSIVE InsertAll(_, _)
InsertAll(m, jobs) ==
    IF jobs = <<>> THEN m
    ELSE InsertAll(IF Truthy(Head(jobs).id) THEN MapSet(m, Head(jobs).id, Head(jobs)) ELSE m,
                   Tail(jobs))

\* Array.from(jobMap.values())
MapValues(m) == [i \in 1..Len(m) |-> m[i].value]

mergeJobs(persistedJobs, freshJobs) ==
    MapValues(InsertAll(InsertAll(<<>>, persistedJobs), freshJobs))

----------------------------------------------------------------------------
(* mergeJobs applied to bounded inputs *)

MergeIds == {EmptyStr, <<"a">>, <<"b">>}
MergeRecords == [id : MergeIds, ver : {"v1", "v2"}]

MergeIdle ==
    /\ mPersisted = <<>>
    /\ mFresh = <<>>
    /\ mResult = <<>>
    /\ mPc = "idle"

MergeInit ==
    /\ mPersisted \in SeqsUpTo(MergeRecords, MaxMergeLen)
    /\ mFresh \in SeqsUpTo(MergeRecords, MaxMergeLen)
    /\ mResult = <<>>
    /\ mPc = "call"

CallMergeJobs ==
    /\ mPc = "call"
    /\ mResult' = mergeJobs(mPersisted, mFresh)
    /\ mPc' = "returned"
    /\ UNCHANGED <<mPersisted, mFresh>>

----------------------------------------------------------------------------
(* lib/jobId.js and lib/deduplication.js: hashed ids and fingerprints *)

\* crypto.createHash('sha256').update(s).digest('hex').  The digest is kept
\* symbolic: a marker followed by the hashed text, so that two digests are
\* equal exactly when the hashed texts are (no collisions), and a digest is
\* never the empty string.
Sha256Hex(s) == <<"sha256:">> \o s

\* hash.substring(0, 8) of a symbolic digest
HexPrefix8(h) == <<"hex8:">> \o Tail(h)

JobIdCompanySuffixes == {
    <<"i", "n", "c">>,
    <<"l", "l", "c">>,
    <<"c", "o", "r", "p">>,
    <<"c", "o", "r", "p", "o", "r", "a", "t", "i", "o", "n">>,
    <<"l", "t", "d">>,
    <<"l", "i", "m", "i", "t", "e", "d">>,
    <<"g", "m", "b", "h">>,
    <<"c", "o">>,
    <<"c", "o", "m", "p", "a", "n", "y">>}

\* normalizeCompanyName of lib/jobId.js
jobId_normalizeCompanyName(company) ==
    IF ~Truthy(company) THEN EmptyStr
    ELSE ReplaceRuns(StripSuffixWord(Trim(ToLower(company)), JobIdCompanySuffixes, TRUE),
                     SpaceChars, <<" ">>)

normalizeTitle(title) ==
    IF ~Truthy(title) THEN EmptyStr
    ELSE ReplaceRuns(Trim(ToLower(title)), SpaceChars, <<" ">>)

normalizeLocation(location) ==
    IF ~Truthy(location) THEN EmptyStr
    ELSE ReplaceRuns(Trim(ToLower(location)), SpaceChars, <<" ">>)

\* generateJobId of lib/jobId.js, for a non-null job
jobId_generateJobId(job) ==
    LET company == jobId_normalizeCompanyName(job.company)
        title == normalizeTitle(job.title)
        location == IF Truthy(job.location) THEN normalizeLocation(job.location) ELSE EmptyStr
        hashInput == Trim(ToLower(Join(<<company, title, location>>, <<"|">>)))
    IN  HexPrefix8(Sha256Hex(hashInput))

\* generateFingerprint of lib/deduplication.js, for a non-null job
generateFingerprint(job) ==
    LET orEmpty(x) == IF Truthy(x) THEN x ELSE EmptyStr
        parts == <<orEmpty(job.company), orEmpty(job.title), orEmpty(job.location),
                   orEmpty(job.experience_level), orEmpty(job.employment_type)>>
        normalized == Join([i \in 1..Len(parts) |-> Trim(ToLower(parts[i]))], <<"|">>)
    IN  Sha256Hex(normalized)

\* job.id = job.id || generateJobId(job);
\* job.fingerprint = job.fingerprint || generateFingerprint(job)
AssignIdentity(job) ==
    [job EXCEPT !.id = IF Truthy(job.id) THEN job.id ELSE jobId_generateJobId(job),
                !.fingerprint = IF Truthy(job.fingerprint) THEN job.fingerprint
                                ELSE generateFingerprint(job)]

\* the skip test of the loop with the fingerprint half left out
IsSeenDuplicate_idOnly(job, seen, seenFingerprints) == job.id \in seen

\* if (seen.has(job.id) || seenFingerprints.has(job.fingerprint)) continue
IsSeenDuplicate(job, seen, seenFingerprints) ==
    job.id \in seen \/ job.fingerprint \in seenFingerprints

\* the for-loop of filterDuplicates from position i on.  jobs is the array
\* with the identities assigned so far (the loop assigns in place); unique
\* is the list of positions pushed to uniqueJobs, which holds references to
\* the elements of jobs.
RECURSIVE FilterLoop(_, _, _, _, _)
FilterLoop(jobs, i, seen, seenFingerprints, unique) ==
    IF i > Len(jobs) THEN [jobs |-> jobs, unique |-> unique]
    ELSE LET job == AssignIdentity(jobs[i])
             now == [jobs EXCEPT ![i] = job]
         IN  IF IsSeenDuplicate(job, seen, seenFingerprints)
             THEN FilterLoop(now, i + 1, seen, seenFingerprints, unique)
             ELSE FilterLoop(now, i + 1, seen \cup {job.id},
                             seenFingerprints \cup {job.fingerprint}, Append(unique, i))

\* filterDuplicates(jobs): isArray is Array.isArray(jobs)
filterDuplicates(jobs, isArray) ==
    IF ~isArray THEN [jobs |-> jobs, unique |-> <<>>]
    ELSE FilterLoop(jobs, 1, {}, {}, <<>>)

----------------------------------------------------------------------------
(* filterDuplicates applied to bounded inputs *)

DedupJob(company, title, level, id, fingerprint) ==
    [company |-> company, title |-> title, location |-> EmptyStr,
     experience_level |-> level, employment_type |-> EmptyStr,
     id |-> id, fingerprint |-> fingerprint]

DedupPool == {
    DedupJob(<<"A", "c", "m", "e">>, <<"D", "e", "v">>, EmptyStr, EmptyStr, EmptyStr),
    DedupJob(<<"a", "c", "m", "e", " ", " ", "I", "n", "c", ".">>, <<" ", "d", "e", "v">>, <<"E", "n", "t", "r", "y">>, EmptyStr, EmptyStr),
    DedupJob(<<"A", "c", "m", "e">>, <<"D", "e", "v">>, EmptyStr, <<"y">>, EmptyStr),
    DedupJob(<<"B", "o", "l", "t">>, <<"O", "p", "s">>, EmptyStr, <<"x">>, <<"p">>),
    DedupJob(<<"B", "o", "l", "t">>, <<"O", "p", "s">>, EmptyStr, <<"x">>, <<"q">>),
    DedupJob(<<"B", "o", "l", "t">>, <<"O", "p", "s">>, EmptyStr, <<"y">>, <<"q">>)}

DedupIdle ==
    /\ dInput = <<>>
    /\ dIsArray = TRUE
    /\ dJobs = <<>>
    /\ dUnique = <<>>
    /\ dPc = "idle"

DedupInit ==
    /\ dInput \in SeqsUpTo(DedupPool, MaxDedupLen)
    /\ dIsArray \in BOOLEAN
    /\ ~dIsArray => dInput = <<>>
    /\ dJobs = dInput
    /\ dUnique = <<>>
    /\ dPc = "call"

\* one call of filterDuplicates: dJobs is the caller's array after the call
\* (identities assigned in place), dUnique the positions of the returned jobs
CallFilterDuplicates ==
    /\ dPc = "call"
    /\ LET r == filterDuplicates(dInput, dIsArray)
       IN  /\ dJobs' = r.jobs
           /\ dUnique' = r.unique
    /\ dPc' = "returned"
    /\ UNCHANGED <<dInput, dIsArray>>

----------------------------------------------------------------------------
(* Seniority: isSeniorJob of the pipeline, getExperienceLevel of utils *)

\* x || '' for a string-or-undefined x
OrEmpty(x) == IF x = JsUndefined THEN EmptyStr ELSE x

\* `${x}` for a string-or-undefined x
TemplateStr(x) == IF x = JsUndefined THEN <<"u", "n", "d", "e", "f", "i", "n", "e", "d">> ELSE x

\* keywords.some(kw => text.includes(kw))
AnyIncluded(text, keywords) == \E i \in 1..Len(keywords) : Includes(text, keywords[i])

seniorKeywords_noStaff == <<
    <<"s", "e", "n", "i", "o", "r">>,
    <<"s", "r", ".">>,
    <<"p", "r", "i", "n", "c", "i", "p", "a", "l">>,
    <<"l", "e", "a", "d">>,
    <<"a", "r", "c", "h", "i", "t", "e", "c", "t">>,
    <<"m", "a", "n", "a", "g", "e", "r">>,
    <<"d", "i", "r", "e", "c", "t", "o", "r">>,
    <<"v", "p">>,
    <<"h", "e", "a", "d", " ", "o", "f">>>>

seniorKeywords == <<
    <<"s", "e", "n", "i", "o", "r">>,
    <<"s", "r", ".">>,
    <<"s", "t", "a", "f", "f">>,
    <<"p", "r", "i", "n", "c", "i", "p", "a", "l">>,
    <<"l", "e", "a", "d">>,
    <<"a", "r", "c", "h", "i", "t", "e", "c", "t">>,
    <<"m", "a", "n", "a", "g", "e", "r">>,
    <<"d", "i", "r", "e", "c", "t", "o", "r">>,
    <<"v", "p">>,
    <<"h", "e", "a", "d", " ", "o", "f">>>>

entryLevelKeywords == <<
    <<"e", "n", "t", "r", "y", " ", "l", "e", "v", "e", "l">>,
    <<"j", "u", "n", "i", "o", "r">>,
    <<"j", "r", ".">>,
    <<"n", "e", "w", " ", "g", "r", "a", "d">>,
    <<"r", "e", "c", "e", "n", "t", " ", "g", "r", "a", "d", "u", "a", "t", "e">>,
    <<"a", "s", "s", "o", "c", "i", "a", "t", "e">>,
    <<"i", "n", "t", "e", "r", "n">>,
    <<"c", "a", "m", "p", "u", "s">>,
    <<"s", "t", "u", "d", "e", "n", "t">>,
    <<"0", "-", "2", " ", "y", "e", "a", "r", "s">>,
    <<"e", "a", "r", "l", "y", " ", "c", "a", "r", "e", "e", "r">>>>

JSearchSource == <<"j", "s", "e", "a", "r", "c", "h">>

isSeniorJob(job) ==
    IF job.job_source = JSearchSource THEN FALSE
    ELSE LET text == ToLower(OrEmpty(job.job_title) \o <<" ">> \o OrEmpty(job.job_description))
             hasSeniorKeyword == AnyIncluded(text, seniorKeywords)
             hasEntryLevelKeyword == AnyIncluded(text, entryLevelKeywords)
         IN  hasSeniorKeyword /\ ~hasEntryLevelKeyword

\* the fallback tests of getExperienceLevel
DefaultSeniorWords == <<
    <<"s", "e", "n", "i", "o", "r">>,
    <<"s", "r", ".">>,
    <<"l", "e", "a", "d">>,
    <<"p", "r", "i", "n", "c", "i", "p", "a", "l">>,
    <<"s", "t", "a", "f", "f">>,
    <<"a", "r", "c", "h", "i", "t", "e", "c", "t">>>>

DefaultEntryWords == <<
    <<"e", "n", "t", "r", "y">>,
    <<"j", "u", "n", "i", "o", "r">>,
    <<"j", "r", ".">>,
    <<"n", "e", "w", " ", "g", "r", "a", "d">>,
    <<"g", "r", "a", "d", "u", "a", "t", "e">>,
    <<"i", "n", "t", "e", "r", "n">>,
    <<"a", "s", "s", "o", "c", "i", "a", "t", "e">>,
    <<"l", "e", "v", "e", "l", " ", "1">>,
    <<"l", "1">>,
    <<"c", "a", "m", "p", "u", "s">>,
    <<"s", "t", "u", "d", "e", "n", "t">>,
    <<"e", "a", "r", "l", "y", " ", "c", "a", "r", "e", "e", "r">>>>

\* config.categories.experienceLevels absent
NoLevelsConfig == [hasLevels |-> FALSE, Senior |-> <<>>, EntryLevel |-> <<>>, MidLevel |-> <<>>]

\* getExperienceLevel(title, description = '', config).  config.hasLevels is
\* (config && config.categories && config.categories.experienceLevels); a
\* label that the table lacks is an empty keyword list.
getExperienceLevel(title, description, config) ==
    LET text == ToLower(TemplateStr(title) \o <<" ">> \o
                        (IF description = JsUndefined THEN EmptyStr ELSE description))
    IN  IF config.hasLevels /\ AnyIncluded(text, config.Senior) THEN "Senior"
        ELSE IF config.hasLevels /\ AnyIncluded(text, config.EntryLevel) THEN "Entry-Level"
        ELSE IF config.hasLevels /\ AnyIncluded(text, config.MidLevel) THEN "Mid-Level"
        ELSE IF AnyIncluded(text, DefaultSeniorWords) THEN "Senior"
        ELSE IF AnyIncluded(text, DefaultEntryWords) THEN "Entry-Level"
        ELSE "Entry-Level"

\* the predicate of filterOutSeniorPositions: TRUE when the job is removed
RemovedBySeniorClassifier(job) ==
    getExperienceLevel(job.job_title, job.job_description, NoLevelsConfig) = "Senior"

----------------------------------------------------------------------------
(* Location filter: isUSOnlyJob of the pipeline, isUSOnlyJob of utils and   *)
(* the locations configuration it accepts                                   *)

processorUSCountries == <<
    <<"u", "s">>,
    <<"u", "s", "a">>,
    <<"u", "n", "i", "t", "e", "d", " ", "s", "t", "a", "t", "e", "s">>>>

processorNonUSCountries == <<
    <<"c", "a", "n", "a", "d", "a">>,
    <<"u", "k">>,
    <<"u", "n", "i", "t", "e", "d", " ", "k", "i", "n", "g", "d", "o", "m">>,
    <<"g", "e", "r", "m", "a", "n", "y">>,
    <<"f", "r", "a", "n", "c", "e">>,
    <<"n", "e", "t", "h", "e", "r", "l", "a", "n", "d", "s">>,
    <<"i", "n", "d", "i", "a">>,
    <<"s", "i", "n", "g", "a", "p", "o", "r", "e">>,
    <<"j", "a", "p", "a", "n">>,
    <<"a", "u", "s", "t", "r", "a", "l", "i", "a">>>>

\* the state codes; job-processor.js and config/locations.js hold the same list
usStateCodes == <<
    <<"a", "l">>, <<"a", "k">>, <<"a", "z">>, <<"a", "r">>, <<"c", "a">>, <<"c", "o">>,
    <<"c", "t">>, <<"d", "e">>, <<"f", "l">>, <<"g", "a">>, <<"h", "i">>, <<"i", "d">>,
    <<"i", "l">>, <<"i", "n">>, <<"i", "a">>, <<"k", "s">>, <<"k", "y">>, <<"l", "a">>,
    <<"m", "e">>, <<"m", "d">>, <<"m", "a">>, <<"m", "i">>, <<"m", "n">>, <<"m", "s">>,
    <<"m", "o">>, <<"m", "t">>, <<"n", "e">>, <<"n", "v">>, <<"n", "h">>, <<"n", "j">>,
    <<"n", "m">>, <<"n", "y">>, <<"n", "c">>, <<"n", "d">>, <<"o", "h">>, <<"o", "k">>,
    <<"o", "r">>, <<"p", "a">>, <<"r", "i">>, <<"s", "c">>, <<"s", "d">>, <<"t", "n">>,
    <<"t", "x">>, <<"u", "t">>, <<"v", "t">>, <<"v", "a">>, <<"w", "a">>, <<"w", "v">>,
    <<"w", "i">>, <<"w", "y">>, <<"d", "c">>>>

\* isUSOnlyJob of lib/job-processor.js, the one processJobs applies
isUSOnlyJob(job) ==
    LET country == ToLower(OrEmpty(job.job_country))
        state == ToLower(OrEmpty(job.job_state))
        city == ToLower(OrEmpty(job.job_city))
    IN  IF \E i \in 1..Len(processorUSCountries) : country = processorUSCountries[i] THEN TRUE
        ELSE IF AnyIncluded(country, processorNonUSCountries) THEN FALSE
        ELSE IF \E i \in 1..Len(usStateCodes) : state = usStateCodes[i] THEN TRUE
        ELSE IF Includes(city, <<"r", "e", "m", "o", "t", "e">>) /\ ~Truthy(country) THEN TRUE
        ELSE FALSE

\* config/locations.js
usStateFullNames == <<
    <<"a", "l", "a", "b", "a", "m", "a">>,
    <<"a", "l", "a", "s", "k", "a">>,
    <<"a", "r", "i", "z", "o", "n", "a">>,
    <<"a", "r", "k", "a", "n", "s", "a", "s">>,
    <<"c", "a", "l", "i", "f", "o", "r", "n", "i", "a">>,
    <<"c", "o", "l", "o", "r", "a", "d", "o">>,
    <<"c", "o", "n", "n", "e", "c", "t", "i", "c", "u", "t">>,
    <<"d", "e", "l", "a", "w", "a", "r", "e">>,
    <<"f", "l", "o", "r", "i", "d", "a">>,
    <<"g", "e", "o", "r", "g", "i", "a">>,
    <<"h", "a", "w", "a", "i", "i">>,
    <<"i", "d", "a", "h", "o">>,
    <<"i", "l", "l", "i", "n", "o", "i", "s">>,
    <<"i", "n", "d", "i", "a", "n", "a">>,
    <<"i", "o", "w", "a">>,
    <<"k", "a", "n", "s", "a", "s">>,
    <<"k", "e", "n", "t", "u", "c", "k", "y">>,
    <<"l", "o", "u", "i", "s", "i", "a", "n", "a">>,
    <<"m", "a", "i", "n", "e">>,
    <<"m", "a", "r", "y", "l", "a", "n", "d">>,
    <<"m", "a", "s", "s", "a", "c", "h", "u", "s", "e", "t", "t", "s">>,
    <<"m", "i", "c", "h", "i", "g", "a", "n">>,
    <<"m", "i", "n", "n", "e", "s", "o", "t", "a">>,
    <<"m", "i", "s", "s", "i", "s", "s", "i", "p", "p", "i">>,
    <<"m", "i", "s", "s", "o", "u", "r", "i">>,
    <<"m", "o", "n", "t", "a", "n", "a">>,
    <<"n", "e", "b", "r", "a", "s", "k", "a">>,
    <<"n", "e", "v", "a", "d", "a">>,
    <<"n", "e", "w", " ", "h", "a", "m", "p", "s", "h", "i", "r", "e">>,
    <<"n", "e", "w", " ", "j", "e", "r", "s", "e", "y">>,
    <<"n", "e", "w", " ", "m", "e", "x", "i", "c", "o">>,
    <<"n", "e", "w", " ", "y", "o", "r", "k">>,
    <<"n", "o", "r", "t", "h", " ", "c", "a", "r", "o", "l", "i", "n", "a">>,
    <<"n", "o", "r", "t", "h", " ", "d", "a", "k", "o", "t", "a">>,
    <<"o", "h", "i", "o">>,
    <<"o", "k", "l", "a", "h", "o", "m", "a">>,
    <<"o", "r", "e", "g", "o", "n">>,
    <<"p", "e", "n", "n", "s", "y", "l", "v", "a", "n", "i", "a">>,
    <<"r", "h", "o", "d", "e", " ", "i", "s", "l", "a", "n", "d">>,
    <<"s", "o", "u", "t", "h", " ", "c", "a", "r", "o", "l", "i", "n", "a">>,
    <<"s", "o", "u", "t", "h", " ", "d", "a", "k", "o", "t", "a">>,
    <<"t", "e", "n", "n", "e", "s", "s", "e", "e">>,
    <<"t", "e", "x", "a", "s">>,
    <<"u", "t", "a", "h">>,
    <<"v", "e", "r", "m", "o", "n", "t">>,
    <<"v", "i", "r", "g", "i", "n", "i", "a">>,
    <<"w", "a", "s", "h", "i", "n", "g", "t", "o", "n">>,
    <<"w", "e", "s", "t", " ", "v", "i", "r", "g", "i", "n", "i", "a">>,
    <<"w", "i", "s", "c", "o", "n", "s", "i", "n">>,
    <<"w", "y", "o", "m", "i", "n", "g">>,
    <<"d", "i", "s", "t", "r", "i", "c", "t", " ", "o", "f", " ", "c", "o", "l", "u", "m", "b", "i", "a">>>>

usIndicators == <<
    <<"u", "s">>,
    <<"u", "s", "a">>,
    <<"u", "n", "i", "t", "e", "d", " ", "s", "t", "a", "t", "e", "s">>,
    <<"u", "n", "i", "t", "e", "d", " ", "s", "t", "a", "t", "e", "s", " ", "o", "f", " ", "a", "m", "e", "r", "i", "c", "a">>,
    <<"a", "m", "e", "r", "i", "c", "a">>>>

nonUSCountries == <<
    <<"c", "a", "n", "a", "d", "a">>,
    <<"m", "e", "x", "i", "c", "o">>,
    <<"u", "k">>,
    <<"u", "n", "i", "t", "e", "d", " ", "k", "i", "n", "g", "d", "o", "m">>,
    <<"g", "r", "e", "a", "t", " ", "b", "r", "i", "t", "a", "i", "n">>,
    <<"b", "r", "i", "t", "a", "i", "n">>,
    <<"g", "e", "r", "m", "a", "n", "y">>,
    <<"d", "e", "u", "t", "s", "c", "h", "l", "a", "n", "d">>,
    <<"f", "r", "a", "n", "c", "e">>,
    <<"n", "e", "t", "h", "e", "r", "l", "a", "n", "d", "s">>,
    <<"h", "o", "l", "l", "a", "n", "d">>,
    <<"s", "w", "e", "d", "e", "n">>,
    <<"n", "o", "r", "w", "a", "y">>,
    <<"d", "e", "n", "m", "a", "r", "k">>,
    <<"f", "i", "n", "l", "a", "n", "d">>,
    <<"i", "r", "e", "l", "a", "n", "d">>,
    <<"b", "e", "l", "g", "i", "u", "m">>,
    <<"a", "u", "s", "t", "r", "i", "a">>,
    <<"s", "w", "i", "t", "z", "e", "r", "l", "a", "n", "d">>,
    <<"p", "o", "l", "a", "n", "d">>,
    <<"p", "o", "r", "t", "u", "g", "a", "l">>,
    <<"g", "r", "e", "e", "c", "e">>,
    <<"i", "t", "a", "l", "y">>,
    <<"s", "p", "a", "i", "n">>,
    <<"r", "o", "m", "a", "n", "i", "a">>,
    <<"b", "u", "l", "g", "a", "r", "i", "a">>,
    <<"h", "u", "n", "g", "a", "r", "y">>,
    <<"c", "z", "e", "c", "h", " ", "r", "e", "p", "u", "b", "l", "i", "c">>,
    <<"c", "r", "o", "a", "t", "i", "a">>,
    <<"s", "e", "r", "b", "i", "a">>,
    <<"r", "u", "s", "s", "i", "a">>,
    <<"u", "k", "r", "a", "i", "n", "e">>,
    <<"e", "s", "t", "o", "n", "i", "a">>,
    <<"l", "a", "t", "v", "i", "a">>,
    <<"l", "i", "t", "h", "u", "a", "n", "i", "a">>,
    <<"i", "n", "d", "i", "a">>,
    <<"s", "i", "n", "g", "a", "p", "o", "r", "e">>,
    <<"j", "a", "p", "a", "n">>,
    <<"s", "o", "u", "t", "h", " ", "k", "o", "r", "e", "a">>,
    <<"k", "o", "r", "e", "a">>,
    <<"c", "h", "i", "n", "a">>,
    <<"t", "a", "i", "w", "a", "n">>,
    <<"h", "o", "n", "g", " ", "k", "o", "n", "g">>,
    <<"t", "h", "a", "i", "l", "a", "n", "d">>,
    <<"v", "i", "e", "t", "n", "a", "m">>,
    <<"p", "h", "i", "l", "i", "p", "p", "i", "n", "e", "s">>,
    <<"i", "n", "d", "o", "n", "e", "s", "i", "a">>,
    <<"m", "a", "l", "a", "y", "s", "i", "a">>,
    <<"i", "s", "r", "a", "e", "l">>,
    <<"t", "u", "r", "k", "e", "y">>,
    <<"u", "a", "e">>,
    <<"s", "a", "u", "d", "i", " ", "a", "r", "a", "b", "i", "a">>,
    <<"a", "u", "s", "t", "r", "a", "l", "i", "a">>,
    <<"n", "e", "w", " ", "z", "e", "a", "l", "a", "n", "d">>,
    <<"b", "r", "a", "z", "i", "l">>,
    <<"a", "r", "g", "e", "n", "t", "i", "n", "a">>,
    <<"c", "h", "i", "l", "e">>,
    <<"c", "o", "l", "o", "m", "b", "i", "a">>,
    <<"p", "e", "r", "u">>>>

\* [...usCities.top20, ...usCities.tech]
allUSCities == <<
    <<"n", "e", "w", " ", "y", "o", "r", "k">>,
    <<"l", "o", "s", " ", "a", "n", "g", "e", "l", "e", "s">>,
    <<"c", "h", "i", "c", "a", "g", "o">>,
    <<"h", "o", "u", "s", "t", "o", "n">>,
    <<"p", "h", "o", "e", "n", "i", "x">>,
    <<"p", "h", "i", "l", "a", "d", "e", "l", "p", "h", "i", "a">>,
    <<"s", "a", "n", " ", "a", "n", "t", "o", "n", "i", "o">>,
    <<"s", "a", "n", " ", "d", "i", "e", "g", "o">>,
    <<"d", "a", "l", "l", "a", "s">>,
    <<"s", "a", "n", " ", "j", "o", "s", "e">>,
    <<"a", "u", "s", "t", "i", "n">>,
    <<"j", "a", "c", "k", "s", "o", "n", "v", "i", "l", "l", "e">>,
    <<"s", "a", "n", " ", "f", "r", "a", "n", "c", "i", "s", "c", "o">>,
    <<"c", "o", "l", "u", "m", "b", "u", "s">>,
    <<"f", "o", "r", "t", " ", "w", "o", "r", "t", "h">>,
    <<"i", "n", "d", "i", "a", "n", "a", "p", "o", "l", "i", "s">>,
    <<"s", "e", "a", "t", "t", "l", "e">>,
    <<"d", "e", "n", "v", "e", "r">>,
    <<"w", "a", "s", "h", "i", "n", "g", "t", "o", "n">>,
    <<"b", "o", "s", "t", "o", "n">>,
    <<"s", "a", "n", " ", "f", "r", "a", "n", "c", "i", "s", "c", "o">>,
    <<"s", "a", "n", " ", "j", "o", "s", "e">>,
    <<"p", "a", "l", "o", " ", "a", "l", "t", "o">>,
    <<"m", "o", "u", "n", "t", "a", "i", "n", " ", "v", "i", "e", "w">>,
    <<"s", "u", "n", "n", "y", "v", "a", "l", "e">>,
    <<"c", "u", "p", "e", "r", "t", "i", "n", "o">>,
    <<"s", "e", "a", "t", "t", "l", "e">>,
    <<"a", "u", "s", "t", "i", "n">>,
    <<"b", "o", "s", "t", "o", "n">>,
    <<"d", "e", "n", "v", "e", "r">>,
    <<"p", "o", "r", "t", "l", "a", "n", "d">>,
    <<"r", "a", "l", "e", "i", "g", "h">>,
    <<"d", "u", "r", "h", "a", "m">>,
    <<"c", "h", "i", "c", "a", "g", "o">>,
    <<"n", "e", "w", " ", "y", "o", "r", "k">>,
    <<"l", "o", "s", " ", "a", "n", "g", "e", "l", "e", "s">>,
    <<"s", "a", "n", " ", "d", "i", "e", "g", "o">>>>

nonUSCities == <<
    <<"t", "o", "r", "o", "n", "t", "o">>,
    <<"v", "a", "n", "c", "o", "u", "v", "e", "r">>,
    <<"m", "o", "n", "t", "r", "e", "a", "l">>,
    <<"o", "t", "t", "a", "w", "a">>,
    <<"c", "a", "l", "g", "a", "r", "y">>,
    <<"e", "d", "m", "o", "n", "t", "o", "n">>,
    <<"q", "u", "e", "b", "e", "c", " ", "c", "i", "t", "y">>,
    <<"l", "o", "n", "d", "o", "n">>,
    <<"m", "a", "n", "c", "h", "e", "s", "t", "e", "r">>,
    <<"b", "i", "r", "m", "i", "n", "g", "h", "a", "m">>,
    <<"g", "l", "a", "s", "g", "o", "w">>,
    <<"l", "i", "v", "e", "r", "p", "o", "o", "l">>,
    <<"b", "r", "i", "s", "t", "o", "l">>,
    <<"e", "d", "i", "n", "b", "u", "r", "g", "h">>,
    <<"b", "e", "r", "l", "i", "n">>,
    <<"m", "u", "n", "i", "c", "h">>,
    <<"h", "a", "m", "b", "u", "r", "g">>,
    <<"c", "o", "l", "o", "g", "n", "e">>,
    <<"f", "r", "a", "n", "k", "f", "u", "r", "t">>,
    <<"s", "t", "u", "t", "t", "g", "a", "r", "t">>,
    <<"p", "a", "r", "i", "s">>,
    <<"m", "a", "r", "s", "e", "i", "l", "l", "e">>,
    <<"l", "y", "o", "n">>,
    <<"t", "o", "u", "l", "o", "u", "s", "e">>,
    <<"n", "i", "c", "e">>,
    <<"a", "m", "s", "t", "e", "r", "d", "a", "m">>,
    <<"r", "o", "t", "t", "e", "r", "d", "a", "m">>,
    <<"t", "h", "e", " ", "h", "a", "g", "u", "e">>,
    <<"u", "t", "r", "e", "c", "h", "t">>,
    <<"s", "t", "o", "c", "k", "h", "o", "l", "m">>,
    <<"c", "o", "p", "e", "n", "h", "a", "g", "e", "n">>,
    <<"h", "e", "l", "s", "i", "n", "k", "i">>,
    <<"o", "s", "l", "o">>,
    <<"g", "o", "t", "h", "e", "n", "b", "u", "r", "g">>,
    <<"b", "a", "n", "g", "a", "l", "o", "r", "e">>,
    <<"b", "e", "n", "g", "a", "l", "u", "r", "u">>,
    <<"m", "u", "m", "b", "a", "i">>,
    <<"d", "e", "l", "h", "i">>,
    <<"h", "y", "d", "e", "r", "a", "b", "a", "d">>,
    <<"p", "u", "n", "e">>,
    <<"c", "h", "e", "n", "n", "a", "i">>,
    <<"t", "o", "k", "y", "o">>,
    <<"o", "s", "a", "k", "a">>,
    <<"s", "e", "o", "u", "l">>,
    <<"b", "u", "s", "a", "n">>,
    <<"s", "i", "n", "g", "a", "p", "o", "r", "e">>,
    <<"h", "o", "n", "g", " ", "k", "o", "n", "g">>,
    <<"t", "a", "i", "p", "e", "i">>,
    <<"b", "a", "n", "g", "k", "o", "k">>,
    <<"s", "y", "d", "n", "e", "y">>,
    <<"m", "e", "l", "b", "o", "u", "r", "n", "e">>,
    <<"b", "r", "i", "s", "b", "a", "n", "e">>,
    <<"p", "e", "r", "t", "h">>,
    <<"a", "u", "c", "k", "l", "a", "n", "d">>,
    <<"t", "e", "l", " ", "a", "v", "i", "v">>,
    <<"j", "e", "r", "u", "s", "a", "l", "e", "m">>,
    <<"d", "u", "b", "a", "i">>,
    <<"a", "b", "u", " ", "d", "h", "a", "b", "i">>,
    <<"r", "i", "y", "a", "d", "h">>>>

\* locations.isNonUS(location)
locations_isNonUS(location) ==
    IF ~Truthy(location) THEN FALSE
    ELSE LET loc == Trim(ToLower(location))
         IN  AnyIncluded(loc, nonUSCountries) \/ AnyIncluded(loc, nonUSCities)

\* locations.isUS(location)
locations_isUS(location) ==
    IF ~Truthy(location) THEN FALSE
    ELSE LET loc == Trim(ToLower(location))
         IN  \/ AnyIncluded(loc, usIndicators)
             \/ AnyIncluded(loc, usStateCodes)
             \/ AnyIncluded(loc, usStateFullNames)
             \/ AnyIncluded(loc, allUSCities)
             \/ (Includes(loc, <<"r", "e", "m", "o", "t", "e">>) /\ ~locations_isNonUS(location))

\* the fallback indicators of utils' isUSOnlyJob
utilsUSIndicators == <<
    <<"u", "s">>,
    <<"u", "s", "a">>,
    <<"u", "n", "i", "t", "e", "d", " ", "s", "t", "a", "t", "e", "s">>,
    <<"a", "m", "e", "r", "i", "c", "a">>>>

\* isUSOnlyJob(job, config) of utils, the package export.  withConfig is
\* (config && config.locations), the configuration being config/locations.js
utils_isUSOnlyJob(job, withConfig) ==
    LET state == Trim(ToLower(OrEmpty(job.job_state)))
        city == Trim(ToLower(OrEmpty(job.job_city)))
        cleanCity == Trim(ReplaceRuns(city, SpaceChars \cup {","}, <<" ">>))
        cleanState == Trim(ReplaceRuns(state, SpaceChars \cup {","}, <<" ">>))
    IN  IF withConfig
        THEN IF locations_isNonUS(cleanCity) \/ locations_isNonUS(cleanState) THEN FALSE
             ELSE locations_isUS(cleanCity) \/ locations_isUS(cleanState)
        ELSE IF AnyIncluded(cleanState, utilsUSIndicators) THEN TRUE
        ELSE IF Includes(cleanCity, <<"r", "e", "m", "o", "t", "e">>) \/ Includes(cleanState, <<"r", "e", "m", "o", "t", "e">>) THEN TRUE
        ELSE TRUE

----------------------------------------------------------------------------
(* generateJobId of lib/job-processor.js *)

\* position of the first character of s that is in cls, Len(s) + 1 if none
FirstIn(s, cls) ==
    IF \E i \in 1..Len(s) : s[i] \in cls
    THEN CHOOSE i \in 1..Len(s) : s[i] \in cls /\ \A j \in 1..(i - 1) : s[j] \notin cls
    ELSE Len(s) + 1

\* new URL(u) with the query left in pathname
ParseUrl_keepQuery(u) ==
    LET t == Trim(u)
        low == ToLower(t)
        scheme == IF StartsWith(low, <<"h", "t", "t", "p", "s", ":", "/", "/">>) THEN <<"h", "t", "t", "p", "s", ":", "/", "/">>
                  ELSE IF StartsWith(low, <<"h", "t", "t", "p", ":", "/", "/">>) THEN <<"h", "t", "t", "p", ":", "/", "/">>
                  ELSE EmptyStr
        rest == SubSeq(t, Len(scheme) + 1, Len(t))
        authEnd == FirstIn(rest, {"/", "?", "#"})
        authority == SubSeq(rest, 1, authEnd - 1)
        host == SubSeq(authority, 1, FirstIn(authority, {":"}) - 1)
        after == SubSeq(rest, authEnd, Len(rest))
        path == SubSeq(after, 1, FirstIn(after, {"#"}) - 1)
    IN  IF scheme = EmptyStr \/ host = EmptyStr
        THEN [ok |-> FALSE, hostname |-> EmptyStr, pathname |-> EmptyStr]
        ELSE [ok |-> TRUE, hostname |-> ToLower(host),
              pathname |-> IF path = EmptyStr THEN <<"/">> ELSE path]

\* new URL(u) for the URLs of the model: an http or https URL with a
\* non-empty host parses, a string without a scheme throws.  hostname is the
\* authority up to the port, lower-cased; pathname runs from the first "/"
\* to the query or fragment and is "/" when empty.  Percent-encoding, dot
\* segments, user info and other schemes do not occur in the modelled pool.
ParseUrl(u) ==
    LET t == Trim(u)
        low == ToLower(t)
        scheme == IF StartsWith(low, <<"h", "t", "t", "p", "s", ":", "/", "/">>) THEN <<"h", "t", "t", "p", "s", ":", "/", "/">>
                  ELSE IF StartsWith(low, <<"h", "t", "t", "p", ":", "/", "/">>) THEN <<"h", "t", "t", "p", ":", "/", "/">>
                  ELSE EmptyStr
        rest == SubSeq(t, Len(scheme) + 1, Len(t))
        authEnd == FirstIn(rest, {"/", "?", "#"})
        authority == SubSeq(rest, 1, authEnd - 1)
        host == SubSeq(authority, 1, FirstIn(authority, {":"}) - 1)
        after == SubSeq(rest, authEnd, Len(rest))
        path == SubSeq(after, 1, FirstIn(after, {"?", "#"}) - 1)
    IN  IF scheme = EmptyStr \/ host = EmptyStr
        THEN [ok |-> FALSE, hostname |-> EmptyStr, pathname |-> EmptyStr]
        ELSE [ok |-> TRUE, hostname |-> ToLower(host),
              pathname |-> IF path = EmptyStr THEN <<"/">> ELSE path]

\* s.replace(/\/$/, '')
StripTrailingSlash(s) ==
    IF s # <<>> /\ s[Len(s)] = "/" THEN SubSeq(s, 1, Len(s) - 1) ELSE s

\* .toLowerCase().replace(/[^\w]/g, '-').replace(/-+/g, '-').replace(/^-|-$/g, '')
SanitizeUrlId(normalized) ==
    StripEdgeHyphens(ReplaceRuns(ReplaceOutside(ToLower(normalized), WordChars, "-"),
                                 {"-"}, <<"-">>))

\* (x || '').toLowerCase().replace(/\s+/g, '-')
HyphenateField(x) == ReplaceRuns(ToLower(OrEmpty(x)), SpaceChars, <<"-">>)

\* generateJobId(job) of lib/job-processor.js, for a non-null job
generateJobId(job) ==
    LET url == IF Truthy(job.job_apply_link) THEN ParseUrl(job.job_apply_link)
               ELSE [ok |-> FALSE, hostname |-> EmptyStr, pathname |-> EmptyStr]
        company == HyphenateField(job.employer_name)
        title == HyphenateField(job.job_title)
        location == HyphenateField(job.job_city)
    IN  IF url.ok
        THEN SanitizeUrlId(url.hostname \o StripTrailingSlash(url.pathname))
        ELSE StripEdgeHyphens(
                 ReplaceRuns(
                     ReplaceOutside(Join(<<company, title, location>>, <<"-">>),
                                    WordChars \cup {"-"}, "-"),
                     {"-"}, <<"-">>))

----------------------------------------------------------------------------
(* Age filter of the pipeline *)

\* time is counted in hours; 1000 * 60 * 60 * 24 ms are 24 of them
HoursPerDay == 24

StaleDays == 14

\* job.job_posted_at_datetime_utc is kept as [kind, at]: kind "missing" for
\* an absent value, "invalid" for a string new Date() turns into an Invalid
\* Date, "date" for a timestamp, at hours since the epoch.
NoDate == [kind |-> "missing", at |-> 0]
BadDate == [kind |-> "invalid", at |-> 0]
DateAt(h) == [kind |-> "date", at |-> h]

\* the comparison at the other side of the 14-day boundary
isJobOlderThan14Days_strict(job, now) ==
    IF job.job_posted_at_datetime_utc.kind = "missing" THEN FALSE
    ELSE IF job.job_posted_at_datetime_utc.kind = "invalid" THEN FALSE
    ELSE (now - job.job_posted_at_datetime_utc.at) \div HoursPerDay > StaleDays

\* isJobOlderThan14Days(job) with new Date() = now.  An Invalid Date makes
\* diffInDays NaN, and NaN >= 14 is false.
isJobOlderThan14Days(job, now) ==
    IF job.job_posted_at_datetime_utc.kind = "missing" THEN FALSE
    ELSE IF job.job_posted_at_datetime_utc.kind = "invalid" THEN FALSE
    ELSE (now - job.job_posted_at_datetime_utc.at) \div HoursPerDay >= StaleDays

----------------------------------------------------------------------------
(* The filters applied to one job drawn from a bounded pool *)

FilterTitles ==
    {JsUndefined,
     <<"S", "o", "f", "t", "w", "a", "r", "e", " ", "E", "n", "g", "i", "n", "e", "e", "r">>,
     <<"S", "e", "n", "i", "o", "r", " ", "S", "o", "f", "t", "w", "a", "r", "e", " ", "E", "n", "g", "i", "n", "e", "e", "r">>,
     <<"S", "t", "a", "f", "f", " ", "E", "n", "g", "i", "n", "e", "e", "r">>,
     <<"E", "n", "g", "i", "n", "e", "e", "r", "i", "n", "g", " ", "M", "a", "n", "a", "g", "e", "r">>,
     <<"L", "e", "a", "d", " ", "I", "n", "t", "e", "r", "n">>}
FilterDescriptions ==
    {JsUndefined,
     <<"N", "e", "w", " ", "g", "r", "a", "d", " ", "p", "r", "o", "g", "r", "a", "m">>,
     <<"W", "o", "r", "k", " ", "w", "i", "t", "h", " ", "s", "e", "n", "i", "o", "r", " ", "s", "t", "a", "f", "f">>}
FilterSources == {JsUndefined, JSearchSource}
FilterCountries ==
    {JsUndefined,
     <<"U", "S">>,
     <<"C", "a", "n", "a", "d", "a">>,
     <<"A", "m", "e", "r", "i", "c", "a">>}
FilterStates ==
    {EmptyStr,
     <<"C", "A">>,
     <<"O", "N">>}
FilterCities ==
    {EmptyStr,
     <<"R", "e", "m", "o", "t", "e">>,
     <<"T", "o", "r", "o", "n", "t", "o">>,
     <<"A", "u", "s", "t", "i", "n">>}

FilterJobs ==
    [job_title : FilterTitles, job_description : FilterDescriptions,
     job_source : FilterSources, job_country : FilterCountries,
     job_state : FilterStates, job_city : FilterCities]

FilterIdle ==
    /\ cJob = [job_title |-> JsUndefined, job_description |-> JsUndefined,
               job_source |-> JsUndefined, job_country |-> JsUndefined,
               job_state |-> EmptyStr, job_city |-> EmptyStr]
    /\ cWithConfig = FALSE
    /\ cVerdict = [fn |-> "none"]
    /\ cPc = "idle"

FilterInit ==
    /\ cJob \in FilterJobs
    /\ cWithConfig \in BOOLEAN
    /\ cVerdict = [fn |-> "none"]
    /\ cPc = "call"

\* the two senior filters on the same job: isSeniorJob as processJobs applies
\* it, and the getExperienceLevel test of filterOutSeniorPositions
CallSeniorFilters ==
    /\ cPc = "call"
    /\ cVerdict' = [fn |-> "senior",
                    isSeniorJob |-> isSeniorJob(cJob),
                    level |-> getExperienceLevel(cJob.job_title, cJob.job_description,
                                                 NoLevelsConfig)]
    /\ cPc' = "returned"
    /\ UNCHANGED <<cJob, cWithConfig>>

\* the two isUSOnlyJob implementations on the same job
CallUSFilters ==
    /\ cPc = "call"
    /\ cVerdict' = [fn |-> "us",
                    processor |-> isUSOnlyJob(cJob),
                    utils |-> utils_isUSOnlyJob(cJob, cWithConfig)]
    /\ cPc' = "returned"
    /\ UNCHANGED <<cJob, cWithConfig>>

----------------------------------------------------------------------------
(* Store files of .github/data and the operations on them *)

\* contents of a file: kind "missing" (no such file), "partial" (a write was
\* begun and not finished), "corrupt" (text that JSON.parse rejects),
\* "unreadable" (readFileSync throws), "null" (valid JSON holding a falsy
\* value), "object" (valid JSON holding a truthy value that is not an array)
\* or "array" (a JSON array of job records, in jobs)
FileOf(kind) == [kind |-> kind, jobs |-> <<>>]

\* JSON.stringify(jobs, null, 2) written out completely
Serialize(jobs) == [kind |-> "array", jobs |-> jobs]

\* loadCurrentJobsStore(): the value returned for each content of
\* current_jobs.json.  existsSync false, a throwing read or parse, and a
\* falsy parsed value give []; any other parsed value is returned as it is.
loadCurrentJobsStore(file) ==
    IF file.kind = "missing" THEN [isArray |-> TRUE, items |-> <<>>]
    ELSE IF file.kind \in {"partial", "corrupt", "unreadable"}
         THEN [isArray |-> TRUE, items |-> <<>>]
    ELSE IF file.kind = "null" THEN [isArray |-> TRUE, items |-> <<>>]
    ELSE IF file.kind = "object" THEN [isArray |-> FALSE, items |-> <<>>]
    ELSE [isArray |-> TRUE, items |-> file.jobs]

----------------------------------------------------------------------------
(* processJobs: the pipeline driver, one file-system or computation step    *)
(* per action                                                               *)

PJob(link, company, title, city, state, country, source, posted) ==
    [isNull |-> FALSE, id |-> JsUndefined,
     job_apply_link |-> link, employer_name |-> company, job_title |-> title,
     job_description |-> JsUndefined, job_city |-> city, job_state |-> state,
     job_country |-> country, job_source |-> source,
     job_posted_at_datetime_utc |-> posted]

\* a null element of the batch
NullJob ==
    [PJob(JsUndefined, JsUndefined, JsUndefined, JsUndefined, JsUndefined,
          JsUndefined, JsUndefined, NoDate) EXCEPT !.isNull = TRUE]

TickHours == HoursPerDay \div 2
StartTime == 40 * HoursPerDay

RecentDate == DateAt(StartTime - HoursPerDay)
BoundaryDate == DateAt(StartTime - StaleDays * HoursPerDay + TickHours \div 2)
OldDate == DateAt(StartTime - 20 * HoursPerDay)

FreshA == PJob(<<"h", "t", "t", "p", "s", ":", "/", "/", "A", "c", "m", "e", ".", "c", "o", "m", "/", "j", "o", "b", "s", "/", "4", "2", "?", "r", "e", "f", "=", "x">>, <<"A", "c", "m", "e">>,
               <<"S", "o", "f", "t", "w", "a", "r", "e", " ", "E", "n", "g", "i", "n", "e", "e", "r">>, <<"A", "u", "s", "t", "i", "n">>, <<"T", "X">>,
               <<"U", "S">>, JSearchSource, RecentDate)
FreshA2 == PJob(<<"h", "t", "t", "p", "s", ":", "/", "/", "a", "c", "m", "e", ".", "c", "o", "m", "/", "j", "o", "b", "s", "/", "4", "2", "/">>, <<"A", "c", "m", "e">>,
                <<"S", "e", "n", "i", "o", "r", " ", "S", "o", "f", "t", "w", "a", "r", "e", " ", "E", "n", "g", "i", "n", "e", "e", "r">>, <<"A", "u", "s", "t", "i", "n">>, <<"T", "X">>,
                <<"U", "S">>, JsUndefined, RecentDate)
FreshB == PJob(<<"n", "o", "t", " ", "a", " ", "u", "r", "l">>, <<"B", "o", "l", "t", " ", "I", "n", "c", ".">>,
               <<"D", "a", "t", "a", " ", "A", "n", "a", "l", "y", "s", "t">>, JsUndefined, JsUndefined,
               JsUndefined, JSearchSource, NoDate)
FreshC == PJob(JsUndefined, <<"C", "o", "r", "e">>, <<"D", "e", "v">>, <<"R", "e", "m", "o", "t", "e">>,
               JsUndefined, JsUndefined, JSearchSource, BoundaryDate)

FreshPool == {FreshA, FreshA2, FreshB, FreshC, NullJob}

\* records of a store written earlier: an older version of FreshA, a stale
\* job, and a record without an id
StoredA == [FreshA EXCEPT !.id = <<"a", "c", "m", "e", "-", "c", "o", "m", "-", "j", "o", "b", "s", "-", "4", "2">>,
                          !.job_title = <<"E", "n", "g", "i", "n", "e", "e", "r", " ", "I">>,
                          !.job_posted_at_datetime_utc = BoundaryDate]
StoredOld == [FreshC EXCEPT !.id = <<"c", "o", "r", "e", "-", "d", "e", "v", "-", "r", "e", "m", "o", "t", "e">>,
                            !.job_posted_at_datetime_utc = OldDate]
StoredNoId == [FreshA EXCEPT !.job_posted_at_datetime_utc = BadDate]

StoredPool == {StoredA, StoredOld, StoredNoId}

InitialStores ==
    {FileOf("missing"), FileOf("corrupt"), FileOf("unreadable"), FileOf("null"),
     FileOf("object")}
        \cup {Serialize(js) : js \in SeqsUpTo(StoredPool, MaxStoreLen)}

NoList == <<>>

\* the reader has not read current_jobs.json yet
NotRead == FileOf("unread")

PipeIdle ==
    /\ fsDir = TRUE
    /\ fsCur = FileOf("missing") /\ fsCurTmp = FileOf("missing")
    /\ fsNew = FileOf("missing") /\ fsNewTmp = FileOf("missing")
    /\ pc = "off"
    /\ runJobs = NoList /\ runPersisted = [isArray |-> TRUE, items |-> NoList]
    /\ runMerged = NoList /\ runUS = NoList /\ runNonSenior = NoList
    /\ runCurrent = NoList /\ runArchived = NoList
    /\ clock = StartTime /\ ticks = 0
    /\ trace = <<>> /\ storeAtStart = FileOf("missing") /\ readerSaw = NotRead

\* the state in which processJobs(jobs) is called: any store contents, the
\* temp files possibly left half-written by a run that was stopped
PipeInit ==
    /\ fsCur \in InitialStores
    /\ fsDir \in BOOLEAN
    /\ ~fsDir => fsCur.kind = "missing"
    /\ fsCurTmp \in {FileOf("missing"), FileOf("partial")}
    /\ ~fsDir => fsCurTmp.kind = "missing"
    /\ fsNew = FileOf("missing") /\ fsNewTmp = FileOf("missing")
    /\ pc = "assignIds"
    /\ runJobs \in SeqsUpTo(FreshPool, MaxBatchLen)
    /\ runPersisted = [isArray |-> TRUE, items |-> NoList]
    /\ runMerged = NoList /\ runUS = NoList /\ runNonSenior = NoList
    /\ runCurrent = NoList /\ runArchived = NoList
    /\ clock = StartTime /\ ticks = 0
    /\ trace = <<>>
    /\ storeAtStart = fsCur
    /\ readerSaw = NotRead

fsVars == <<fsDir, fsCur, fsCurTmp, fsNew, fsNewTmp>>
dataVars == <<runJobs, runPersisted, runMerged, runUS, runNonSenior, runCurrent, runArchived>>
clockVars == <<clock, ticks>>
pipeVars == <<fsVars, pc, dataVars, clockVars, trace, storeAtStart, readerSaw>>

\* the statement order of processJobs with the store loaded before the
\* snapshot is written
NextStep_loadFirst(step) ==
    CASE step = "assignIds" -> "load"
      [] step = "load" -> "snapMkdir"
      [] step = "snapMkdir" -> "snapOpen"
      [] step = "snapOpen" -> "snapWrite"
      [] step = "snapWrite" -> "snapRename"
      [] step = "snapRename" -> "merge"
      [] step = "merge" -> "filterUS"
      [] step = "filterUS" -> "filterSenior"
      [] step = "filterSenior" -> "filterStale"
      [] step = "filterStale" -> "saveOpen"
      [] step = "saveOpen" -> "saveWrite"
      [] step = "saveWrite" -> "saveRename"
      [] step = "saveRename" -> "archive"
      [] step = "archive" -> "done"

\* the statement order of processJobs and of the two save functions it calls
NextStep(step) ==
    CASE step = "assignIds" -> "snapMkdir"
      [] step = "snapMkdir" -> "snapOpen"
      [] step = "snapOpen" -> "snapWrite"
      [] step = "snapWrite" -> "snapRename"
      [] step = "snapRename" -> "load"
      [] step = "load" -> "merge"
      [] step = "merge" -> "filterUS"
      [] step = "filterUS" -> "filterSenior"
      [] step = "filterSenior" -> "filterStale"
      [] step = "filterStale" -> "saveOpen"
      [] step = "saveOpen" -> "saveWrite"
      [] step = "saveWrite" -> "saveRename"
      [] step = "saveRename" -> "archive"
      [] step = "archive" -> "done"

Running == pc \notin {"off", "done", "failed", "stopped"}

\* jobs.forEach(job => { job.id = generateJobId(job) }): a null element makes
\* job.job_apply_link throw a TypeError, which ends the run
AssignIds ==
    /\ pc = "assignIds"
    /\ IF \E i \in 1..Len(runJobs) : runJobs[i].isNull
       THEN /\ pc' = "failed"
            /\ UNCHANGED <<runJobs, trace>>
       ELSE /\ runJobs' = [i \in 1..Len(runJobs) |-> [runJobs[i] EXCEPT !.id = generateJobId(runJobs[i])]]
            /\ trace' = Append(trace, "assignIds")
            /\ pc' = NextStep("assignIds")
    /\ UNCHANGED <<fsVars, runPersisted, runMerged, runUS, runNonSenior,
                   runCurrent, runArchived, clockVars, storeAtStart, readerSaw>>

\* writeNewJobsFile: if (!fs.existsSync(dataDir)) fs.mkdirSync(dataDir)
SnapshotMkdir ==
    /\ pc = "snapMkdir"
    /\ fsDir' = TRUE
    /\ pc' = NextStep("snapMkdir")
    /\ UNCHANGED <<fsCur, fsCurTmp, fsNew, fsNewTmp, dataVars, clockVars, trace,
                   storeAtStart, readerSaw>>

\* writeNewJobsFile: fs.writeFileSync(tempPath, ...) opens and truncates
\* new_jobs.tmp.json ...
SnapshotOpen ==
    /\ pc = "snapOpen"
    /\ fsNewTmp' = FileOf("partial")
    /\ pc' = NextStep("snapOpen")
    /\ UNCHANGED <<fsDir, fsCur, fsCurTmp, fsNew, dataVars, clockVars, trace,
                   storeAtStart, readerSaw>>

\* ... and writes the serialized batch into it
SnapshotWrite ==
    /\ pc = "snapWrite"
    /\ fsNewTmp' = Serialize(runJobs)
    /\ pc' = NextStep("snapWrite")
    /\ UNCHANGED <<fsDir, fsCur, fsCurTmp, fsNew, dataVars, clockVars, trace,
                   storeAtStart, readerSaw>>

\* the snapshot renamed over current_jobs.json instead of new_jobs.json
SnapshotRename_toStore ==
    /\ pc = "snapRename"
    /\ fsCur' = fsNewTmp
    /\ fsNewTmp' = FileOf("missing")
    /\ trace' = Append(trace, "writeSnapshot")
    /\ pc' = NextStep("snapRename")
    /\ UNCHANGED <<fsDir, fsNew, fsCurTmp, dataVars, clockVars, storeAtStart, readerSaw>>

\* writeNewJobsFile: fs.renameSync(tempPath, newJobsPath)
SnapshotRename ==
    /\ pc = "snapRename"
    /\ fsNew' = fsNewTmp
    /\ fsNewTmp' = FileOf("missing")
    /\ trace' = Append(trace, "writeSnapshot")
    /\ pc' = NextStep("snapRename")
    /\ UNCHANGED <<fsDir, fsCur, fsCurTmp, dataVars, clockVars, storeAtStart, readerSaw>>

\* const persistedJobs = loadCurrentJobsStore()
LoadStore ==
    /\ pc = "load"
    /\ runPersisted' = loadCurrentJobsStore(fsCur)
    /\ trace' = Append(trace, "load")
    /\ pc' = NextStep("load")
    /\ UNCHANGED <<fsVars, runJobs, runMerged, runUS, runNonSenior, runCurrent,
                   runArchived, clockVars, storeAtStart, readerSaw>>

\* const mergedJobs = mergeJobs(persistedJobs, jobs): persistedJobs.forEach
\* is not a function when the loaded value is not an array, and the
\* TypeError ends the run
MergeStep ==
    /\ pc = "merge"
    /\ IF ~runPersisted.isArray
       THEN /\ pc' = "failed"
            /\ UNCHANGED <<runMerged, trace>>
       ELSE /\ runMerged' = mergeJobs(runPersisted.items, runJobs)
            /\ trace' = Append(trace, "merge")
            /\ pc' = NextStep("merge")
    /\ UNCHANGED <<fsVars, runJobs, runPersisted, runUS, runNonSenior, runCurrent,
                   runArchived, clockVars, storeAtStart, readerSaw>>

\* const usJobs = mergedJobs.filter(job => isUSOnlyJob(job))
FilterUSStep ==
    /\ pc = "filterUS"
    /\ runUS' = SeqFilter(runMerged, {j \in Range(runMerged) : isUSOnlyJob(j)})
    /\ trace' = Append(trace, "filterUS")
    /\ pc' = NextStep("filterUS")
    /\ UNCHANGED <<fsVars, runJobs, runPersisted, runMerged, runNonSenior, runCurrent,
                   runArchived, clockVars, storeAtStart, readerSaw>>

\* const nonSeniorJobs = usJobs.filter(job => !isSeniorJob(job))
FilterSeniorStep ==
    /\ pc = "filterSenior"
    /\ runNonSenior' = SeqFilter(runUS, {j \in Range(runUS) : ~isSeniorJob(j)})
    /\ trace' = Append(trace, "filterSenior")
    /\ pc' = NextStep("filterSenior")
    /\ UNCHANGED <<fsVars, runJobs, runPersisted, runMerged, runUS, runCurrent,
                   runArchived, clockVars, storeAtStart, readerSaw>>

\* const currentJobs = nonSeniorJobs.filter(job => !isJobOlderThan14Days(job))
FilterStaleStep ==
    /\ pc = "filterStale"
    /\ runCurrent' = SeqFilter(runNonSenior,
                                {j \in Range(runNonSenior) : ~isJobOlderThan14Days(j, clock)})
    /\ trace' = Append(trace, "filterStale")
    /\ pc' = NextStep("filterStale")
    /\ UNCHANGED <<fsVars, runJobs, runPersisted, runMerged, runUS, runNonSenior,
                   runArchived, clockVars, storeAtStart, readerSaw>>

\* the save writing straight into current_jobs.json
SaveOpen_inPlace ==
    /\ pc = "saveOpen"
    /\ fsDir' = TRUE
    /\ fsCur' = FileOf("partial")
    /\ pc' = NextStep("saveOpen")
    /\ UNCHANGED <<fsCurTmp, fsNew, fsNewTmp, dataVars, clockVars, trace, storeAtStart,
                   readerSaw>>

\* saveCurrentJobsStore: the directory test (and mkdirSync), then
\* fs.writeFileSync(tempPath, ...) opens and truncates current_jobs.tmp.json
SaveOpen ==
    /\ pc = "saveOpen"
    /\ fsDir' = TRUE
    /\ fsCurTmp' = FileOf("partial")
    /\ pc' = NextStep("saveOpen")
    /\ UNCHANGED <<fsCur, fsNew, fsNewTmp, dataVars, clockVars, trace, storeAtStart,
                   readerSaw>>

\* ... and writes the serialized current jobs into it
SaveWrite ==
    /\ pc = "saveWrite"
    /\ fsCurTmp' = Serialize(runCurrent)
    /\ pc' = NextStep("saveWrite")
    /\ UNCHANGED <<fsDir, fsCur, fsNew, fsNewTmp, dataVars, clockVars, trace,
                   storeAtStart, readerSaw>>

\* saveCurrentJobsStore: fs.renameSync(tempPath, currentPath)
SaveRename ==
    /\ pc = "saveRename"
    /\ fsCur' = fsCurTmp
    /\ fsCurTmp' = FileOf("missing")
    /\ trace' = Append(trace, "save")
    /\ pc' = NextStep("saveRename")
    /\ UNCHANGED <<fsDir, fsNew, fsNewTmp, dataVars, clockVars, storeAtStart, readerSaw>>

\* const archivedJobs = nonSeniorJobs.filter(job => isJobOlderThan14Days(job));
\* return { currentJobs, archivedJobs }
ArchiveAndReturn ==
    /\ pc = "archive"
    /\ runArchived' = SeqFilter(runNonSenior,
                                 {j \in Range(runNonSenior) : isJobOlderThan14Days(j, clock)})
    /\ pc' = NextStep("archive")
    /\ UNCHANGED <<fsVars, runJobs, runPersisted, runMerged, runUS, runNonSenior,
                   runCurrent, clockVars, trace, storeAtStart, readerSaw>>

FsSteps == {"snapMkdir", "snapOpen", "snapWrite", "snapRename",
            "saveOpen", "saveWrite", "saveRename"}

\* a file-system call throws (no permission, disk full): the call has no
\* effect, a write that was begun leaves its temp file half-written, and the
\* exception ends the run since processJobs catches nothing
FsCallThrows ==
    /\ pc \in FsSteps
    /\ pc' = "failed"
    /\ UNCHANGED <<fsVars, dataVars, clockVars, trace, storeAtStart, readerSaw>>

\* the process is stopped between two steps
ProcessStops ==
    /\ Running
    /\ pc' = "stopped"
    /\ UNCHANGED <<fsVars, dataVars, clockVars, trace, storeAtStart, readerSaw>>

\* the wall clock advances
Tick ==
    /\ Running
    /\ ticks < MaxTicks
    /\ clock' = clock + TickHours
    /\ ticks' = ticks + 1
    /\ UNCHANGED <<fsVars, pc, dataVars, trace, storeAtStart, readerSaw>>

\* another process reads current_jobs.json
ReaderReads ==
    /\ readerSaw # fsCur
    /\ readerSaw' = fsCur
    /\ UNCHANGED <<fsVars, pc, dataVars, clockVars, trace, storeAtStart>>

----------------------------------------------------------------------------
(* Age filter of utils: isJobOlderThanWeek *)

DigitSeq == <<"0", "1", "2", "3", "4", "5", "6", "7", "8", "9">>

\* String(n) for a non-negative integer n
RECURSIVE ToDigits(_)
ToDigits(n) ==
    IF n < Len(DigitSeq) THEN <<DigitSeq[n + 1]>>
    ELSE Append(ToDigits(n \div Len(DigitSeq)), DigitSeq[(n % Len(DigitSeq)) + 1])

\* parseInt(s) for a string of decimal digits
RECURSIVE ParseInt(_)
ParseInt(s) ==
    IF s = <<>> THEN 0
    ELSE ParseInt(SubSeq(s, 1, Len(s) - 1)) * Len(DigitSeq)
            + ((CHOOSE i \in 1..Len(DigitSeq) : DigitSeq[i] = s[Len(s)]) - 1)

\* a dateString argument: kind "missing" (null / undefined), "text" (the
\* string in text) or "iso" (an ISO timestamp string of the instant at, in
\* hours)
MissingArg == [kind |-> "missing", text |-> EmptyStr, at |-> 0]
TextArg(t) == [kind |-> "text", text |-> t, at |-> 0]
IsoArg(h) == [kind |-> "iso", text |-> EmptyStr, at |-> h]

\* String(dateString).match(/^(\d+)([hdwmo])$/i): one or more digits
\* followed by exactly one character of the class [hdwmo], either case.  An
\* ISO timestamp does not match.
RelativeUnitClass == {"h", "d", "w", "m", "o"}
RelativeMatch(arg) ==
    /\ arg.kind = "text"
    /\ Len(arg.text) >= 2
    /\ \A i \in 1..(Len(arg.text) - 1) : arg.text[i] \in DigitChars
    /\ LowerOf(arg.text[Len(arg.text)]) \in RelativeUnitClass

\* new Date(dateString): an ISO timestamp gives its instant; a word, or a
\* number followed by a word that is no date keyword, gives an Invalid Date
NewDate(arg) == IF arg.kind = "iso" THEN DateAt(arg.at) ELSE BadDate

RelStaleHours == 336
RelStaleDays == 14
RelStaleWeeks == 2
AbsStaleDays == 14

\* switch (unit) of isJobOlderThanWeek; unit is the one matched character
UnitVerdict(unit, value) ==
    IF unit = <<"h">> THEN value >= RelStaleHours
    ELSE IF unit = <<"d">> THEN value >= RelStaleDays
    ELSE IF unit = <<"w">> THEN value >= RelStaleWeeks
    ELSE IF unit = <<"m", "o">> THEN TRUE
    ELSE FALSE

\* isJobOlderThanWeek(dateString) with new Date() = now
isJobOlderThanWeek(dateString, now) ==
    IF dateString.kind = "missing" \/ (dateString.kind = "text" /\ dateString.text = EmptyStr)
    THEN FALSE
    ELSE IF RelativeMatch(dateString)
    THEN UnitVerdict(<<LowerOf(dateString.text[Len(dateString.text)])>>,
                     ParseInt(SubSeq(dateString.text, 1, Len(dateString.text) - 1)))
    ELSE IF NewDate(dateString).kind = "invalid" THEN FALSE
    ELSE (now - NewDate(dateString).at) \div HoursPerDay >= AbsStaleDays

\* job.job_posted_at_datetime_utc of the pipeline for the same argument
AsPosted(arg) ==
    IF arg.kind = "missing" \/ (arg.kind = "text" /\ arg.text = EmptyStr) THEN NoDate
    ELSE NewDate(arg)

RelativeUnits == {<<"h">>, <<"d">>, <<"w">>, <<"m">>, <<"m", "o">>, <<"D">>, <<"o">>}

GarbageTexts == {EmptyStr, <<"i", "n", "v", "a", "l", "i", "d">>, <<"n", "/", "a">>, <<"d">>}

\* ages, in hours, of the ISO timestamps handed to the filters
AgeOffsets ==
    {0 - HoursPerDay, 0, 10 * HoursPerDay, AbsStaleDays * HoursPerDay - 1,
     AbsStaleDays * HoursPerDay, AbsStaleDays * HoursPerDay + 1, 15 * HoursPerDay,
     15 * HoursPerDay - TickHours}

AgeInputs ==
    {MissingArg}
        \cup {TextArg(t) : t \in GarbageTexts}
        \cup {TextArg(ToDigits(n) \o u) : n \in 0..MaxAgeValue, u \in RelativeUnits}
        \cup {IsoArg(StartTime - off) : off \in AgeOffsets}

AgeIdle == aInput = MissingArg /\ aNow = StartTime /\ aVerdict = "none" /\ aPc = "off"

AgeInit ==
    /\ aInput \in AgeInputs
    /\ aNow \in {StartTime, StartTime + TickHours}
    /\ aVerdict = "none"
    /\ aPc = "call"

CallAgeFilters ==
    /\ aPc = "call"
    /\ aVerdict' = [week |-> isJobOlderThanWeek(aInput, aNow),
                    pipeline |-> isJobOlderThan14Days(
                                    [job_posted_at_datetime_utc |-> AsPosted(aInput)], aNow)]
    /\ aPc' = "done"
    /\ UNCHANGED <<aInput, aNow>>

----------------------------------------------------------------------------
(* JSearch fetcher: the usage-counter file and fetchAllJSearchJobs; the     *)
(* seen-IDs file of lib/job-processor.js                                    *)

DefaultMaxRequestsPerDay == 30

\* config.maxRequestsPerDay: options.maxRequestsPerDay || 30
maxRequestsPerDay(option) == IF option = 0 THEN DefaultMaxRequestsPerDay ELSE option

\* contents of jsearch_usage.json: kind "missing", "partial" (a write was
\* begun and not finished), "corrupt" (text that JSON.parse rejects) or
\* "usage" (the tracking object; queries_executed is written and never read)
UsageFileOf(kind) == [kind |-> kind, date |-> "none", requests |-> 0, remaining |-> 0]
UsageRecord(date, requests, remaining) ==
    [kind |-> "usage", date |-> date, requests |-> requests, remaining |-> remaining]

\* loadUsageTracking() on a day whose toDateString() is today
loadUsageTracking(file, today, max) ==
    IF file.kind = "usage"
    THEN IF file.date # today THEN UsageRecord(today, 0, max) ELSE file
    ELSE UsageRecord(today, 0, max)

UsageIdle ==
    /\ uOption = 0 /\ uHasKey = FALSE /\ uFile = UsageFileOf("missing")
    /\ uPc = "off" /\ uUsage = UsageFileOf("missing")
    /\ uIssued = 0 /\ uRuns = 0 /\ uReader = UsageFileOf("unread")

\* a fetcher created with maxRequestsPerDay = uOption; the usage file is
\* absent, unparseable, from the day before or from an earlier run of today,
\* whose requests count as issued today
UsageInit ==
    /\ uOption \in 0..MaxQuota
    /\ uHasKey \in BOOLEAN
    /\ uFile \in {UsageFileOf("missing"), UsageFileOf("corrupt"),
                  UsageRecord("yesterday", 1, maxRequestsPerDay(uOption) - 1)}
                    \cup {UsageRecord("today", r, maxRequestsPerDay(uOption) - r) :
                            r \in 0..MaxQuota}
    /\ uFile.requests <= maxRequestsPerDay(uOption)
    /\ uPc = "idle"
    /\ uUsage = UsageFileOf("missing")
    /\ uIssued = (IF uFile.date = "today" THEN uFile.requests ELSE 0)
    /\ uRuns = 0
    /\ uReader = UsageFileOf("unread")

\* fetchAllJSearchJobs up to the request: the api-key test, loadUsageTracking
\* and the rate-limit test
StartFetch ==
    /\ uPc = "idle"
    /\ uRuns < MaxRuns
    /\ uRuns' = uRuns + 1
    /\ IF ~uHasKey
       THEN uPc' = "idle" /\ UNCHANGED uUsage
       ELSE /\ uUsage' = loadUsageTracking(uFile, "today", maxRequestsPerDay(uOption))
            /\ uPc' = (IF uUsage'.requests >= maxRequestsPerDay(uOption)
                       THEN "idle" ELSE "request")
    /\ UNCHANGED <<uOption, uHasKey, uFile, uIssued, uReader>>

\* fetchFromJSearch: req.end() sends the HTTPS request
SendRequest ==
    /\ uPc = "request"
    /\ uIssued' = uIssued + 1
    /\ uPc' = "await"
    /\ UNCHANGED <<uOption, uHasKey, uFile, uUsage, uRuns, uReader>>

\* the promise resolves (with the jobs, or with [] on an error or a timeout);
\* usage.requests++ and usage.remaining are updated in memory
ReceiveResponse ==
    /\ uPc = "await"
    /\ uUsage' = UsageRecord(uUsage.date, uUsage.requests + 1,
                             maxRequestsPerDay(uOption) - (uUsage.requests + 1))
    /\ uPc' = "saveOpen"
    /\ UNCHANGED <<uOption, uHasKey, uFile, uIssued, uRuns, uReader>>

\* saveUsageTracking: fs.writeFileSync(config.usageFile, ...) opens and
\* truncates jsearch_usage.json itself ...
UsageSaveOpen ==
    /\ uPc = "saveOpen"
    /\ uFile' = UsageFileOf("partial")
    /\ uPc' = "saveWrite"
    /\ UNCHANGED <<uOption, uHasKey, uUsage, uIssued, uRuns, uReader>>

\* ... and writes the serialized tracking object into it; the run returns
UsageSaveWrite ==
    /\ uPc = "saveWrite"
    /\ uFile' = uUsage
    /\ uPc' = "idle"
    /\ UNCHANGED <<uOption, uHasKey, uUsage, uIssued, uRuns, uReader>>

\* mkdirSync or writeFileSync throws: saveUsageTracking catches the error
\* and logs it, and the run returns its jobs
UsageSaveThrows ==
    /\ uPc \in {"saveOpen", "saveWrite"}
    /\ uPc' = "idle"
    /\ UNCHANGED <<uOption, uHasKey, uFile, uUsage, uIssued, uRuns, uReader>>

\* the process is stopped during a run; a later run starts afresh
FetchStops ==
    /\ uPc \in {"request", "await", "saveOpen", "saveWrite"}
    /\ uPc' = "idle"
    /\ UNCHANGED <<uOption, uHasKey, uFile, uUsage, uIssued, uRuns, uReader>>

\* another process reads jsearch_usage.json
UsageReaderReads ==
    /\ uReader # uFile
    /\ uReader' = uFile
    /\ UNCHANGED <<uOption, uHasKey, uFile, uPc, uUsage, uIssued, uRuns>>

\* contents of seen_jobs.json and seen_jobs.tmp.json: kind "missing",
\* "partial" or "list" (a JSON array of ids)
SeenFileOf(kind) == [kind |-> kind, ids |-> <<>>]
SeenList(ids) == [kind |-> "list", ids |-> ids]

SeenIdle ==
    /\ sFile = SeenFileOf("missing") /\ sTmp = SeenFileOf("missing")
    /\ sSeenJobs = <<>> /\ sPc = "off" /\ sReader = SeenFileOf("unread")

\* saveSeenJobsStore(seenJobs) is called; a Set is given in insertion order
SeenInit ==
    /\ sFile \in {SeenFileOf("missing"), SeenList(<<"a">>)}
    /\ sTmp = SeenFileOf("missing")
    /\ sSeenJobs \in {<<>>, <<"a", "b">>}
    /\ sPc = "saveOpen"
    /\ sReader = SeenFileOf("unread")

\* saveSeenJobsStore: the directory test, then fs.writeFileSync(tempPath, ...)
\* opens and truncates seen_jobs.tmp.json ...
SeenSaveOpen ==
    /\ sPc = "saveOpen"
    /\ sTmp' = SeenFileOf("partial")
    /\ sPc' = "saveWrite"
    /\ UNCHANGED <<sFile, sSeenJobs, sReader>>

\* ... and writes JSON.stringify(Array.from(seenJobs)) into it
SeenSaveWrite ==
    /\ sPc = "saveWrite"
    /\ sTmp' = SeenList(sSeenJobs)
    /\ sPc' = "saveRename"
    /\ UNCHANGED <<sFile, sSeenJobs, sReader>>

\* saveSeenJobsStore: fs.renameSync(tempPath, seenPath)
SeenSaveRename ==
    /\ sPc = "saveRename"
    /\ sFile' = sTmp
    /\ sTmp' = SeenFileOf("missing")
    /\ sPc' = "done"
    /\ UNCHANGED <<sSeenJobs, sReader>>

\* a file-system call of saveSeenJobsStore throws, or the process is stopped
SeenSaveEnds ==
    /\ sPc \in {"saveOpen", "saveWrite", "saveRename"}
    /\ sPc' = "ended"
    /\ UNCHANGED <<sFile, sTmp, sSeenJobs, sReader>>

\* another process reads seen_jobs.json
SeenReaderReads ==
    /\ sReader # sFile
    /\ sReader' = sFile
    /\ UNCHANGED <<sFile, sTmp, sSeenJobs, sPc>>

----------------------------------------------------------------------------
(* withRetry of lib/error-handler.js *)

DefaultMaxAttempts == 3
DefaultInitialDelayMs == 1000
DefaultMaxDelayMs == 30000
DefaultBackoffMultiplier == 2
DefaultRetryableErrors ==
    <<<<"E", "C", "O", "N", "N", "R", "E", "S", "E", "T">>,
      <<"E", "C", "O", "N", "N", "R", "E", "F", "U", "S", "E", "D">>,
      <<"E", "T", "I", "M", "E", "D", "O", "U", "T">>,
      <<"E", "N", "O", "T", "F", "O", "U", "N", "D">>,
      <<"S", "O", "C", "K", "E", "T">>>>

\* the destructured config of one withRetry call
RetryConfig(maxAttempts, initialDelayMs, maxDelayMs, backoffMultiplier, retryableErrors) ==
    [maxAttempts |-> maxAttempts, initialDelayMs |-> initialDelayMs,
     maxDelayMs |-> maxDelayMs, backoffMultiplier |-> backoffMultiplier,
     retryableErrors |-> retryableErrors]

\* what fn rejects with: code and message are strings or undefined
FnError(code, message) == [ok |-> FALSE, code |-> code, message |-> message]
FnSuccess == [ok |-> TRUE, code |-> JsUndefined, message |-> JsUndefined]

\* one element of retryableErrors.some(...) for an error with a message
MatchesRetryable(error, retryable) ==
    \/ error.code = retryable
    \/ Includes(error.message, retryable)
    \/ Includes(error.message, <<"s", "o", "c", "k", "e", "t">>)
    \/ Includes(error.message, <<"t", "i", "m", "e", "o", "u", "t">>)

\* retryableErrors.some(...) from element i on: "yes", "no", or "TypeError"
\* when error.message.includes is reached for an error without a message
RECURSIVE IsRetryableFrom(_, _, _)
IsRetryableFrom(error, retryableErrors, i) ==
    IF i > Len(retryableErrors) THEN "no"
    ELSE IF error.code = retryableErrors[i] THEN "yes"
    ELSE IF error.message = JsUndefined THEN "TypeError"
    ELSE IF MatchesRetryable(error, retryableErrors[i]) THEN "yes"
    ELSE IsRetryableFrom(error, retryableErrors, i + 1)

isRetryable(error, retryableErrors) == IsRetryableFrom(error, retryableErrors, 1)

Min(a, b) == IF a <= b THEN a ELSE b

\* what withRetry ended with: nothing yet, a thrown error of fn, the value
\* undefined thrown, or a TypeError thrown by the catch block
NothingThrown == [kind |-> "none", error |-> FnSuccess]
ThrownError(e) == [kind |-> "error", error |-> e]
ThrownUndefined == [kind |-> "undefined", error |-> FnSuccess]
ThrownTypeError == [kind |-> "TypeError", error |-> FnSuccess]

DelayConfigs ==
    {<<DefaultInitialDelayMs, DefaultMaxDelayMs, DefaultBackoffMultiplier>>,
     <<1000, 1500, 2>>, <<2000, 1500, 2>>, <<1000, 1000, 1>>, <<10, 100, 3>>}

RetryableLists == {DefaultRetryableErrors, <<<<"E", "C", "O", "N", "N", "R", "E", "S", "E", "T">>>>, <<>>}

FnErrors ==
    {FnError(<<"E", "C", "O", "N", "N", "R", "E", "S", "E", "T">>, <<"r", "e", "a", "d", " ", "E", "C", "O", "N", "N", "R", "E", "S", "E", "T">>),
     FnError(JsUndefined, <<"R", "e", "q", "u", "e", "s", "t", " ", "t", "i", "m", "e", "o", "u", "t">>),
     FnError(JsUndefined, <<"B", "a", "d", " ", "r", "e", "q", "u", "e", "s", "t">>),
     FnError(<<"E", "T", "I", "M", "E", "D", "O", "U", "T">>, JsUndefined)}

RetryIdle ==
    /\ rConfig = RetryConfig(0, 0, 0, 0, <<>>)
    /\ rAttempt = 0 /\ rDelay = 0 /\ rPc = "off" /\ rCalls = 0
    /\ rWaits = <<>> /\ rLast = FnSuccess /\ rThrown = NothingThrown

\* withRetry(fn, operation, config) is called
RetryInit ==
    /\ rConfig \in {RetryConfig(m, d[1], d[2], d[3], l) :
                        m \in 0..MaxAttemptsCfg, d \in DelayConfigs, l \in RetryableLists}
    /\ rAttempt = 1
    /\ rDelay = rConfig.initialDelayMs
    /\ rPc = "enter"
    /\ rCalls = 0
    /\ rWaits = <<>>
    /\ rLast = FnSuccess
    /\ rThrown = NothingThrown

\* the first test of the for loop; with no iteration: throw lastError
EnterLoop ==
    /\ rPc = "enter"
    /\ IF rAttempt <= rConfig.maxAttempts
       THEN rPc' = "attempt" /\ UNCHANGED rThrown
       ELSE rPc' = "threw" /\ rThrown' = ThrownUndefined
    /\ UNCHANGED <<rConfig, rAttempt, rDelay, rCalls, rWaits, rLast>>

\* await fn() resolves: return result
FnResolves ==
    /\ rPc = "attempt"
    /\ rCalls' = rCalls + 1
    /\ rLast' = FnSuccess
    /\ rPc' = "returned"
    /\ UNCHANGED <<rConfig, rAttempt, rDelay, rWaits, rThrown>>

\* await fn() rejects with error: the catch block
FnRejects ==
    /\ rPc = "attempt"
    /\ \E error \in FnErrors :
          /\ rCalls' = rCalls + 1
          /\ rLast' = error
          /\ IF isRetryable(error, rConfig.retryableErrors) = "TypeError"
             THEN rPc' = "threw" /\ rThrown' = ThrownTypeError
             ELSE IF isRetryable(error, rConfig.retryableErrors) = "no"
                     \/ rAttempt >= rConfig.maxAttempts
             THEN rPc' = "threw" /\ rThrown' = ThrownError(error)
             ELSE rPc' = "wait" /\ UNCHANGED rThrown
    /\ UNCHANGED <<rConfig, rAttempt, rDelay, rWaits>>

\* await setTimeout(delay); delay = Math.min(delay * backoffMultiplier,
\* maxDelayMs); attempt++ and the loop test
WaitBeforeRetry ==
    /\ rPc = "wait"
    /\ rWaits' = Append(rWaits, rDelay)
    /\ rDelay' = Min(rDelay * rConfig.backoffMultiplier, rConfig.maxDelayMs)
    /\ rAttempt' = rAttempt + 1
    /\ IF rAttempt + 1 <= rConfig.maxAttempts
       THEN rPc' = "attempt" /\ UNCHANGED rThrown
       ELSE rPc' = "threw" /\ rThrown' = ThrownError(rLast)
    /\ UNCHANGED <<rConfig, rCalls, rLast>>

----------------------------------------------------------------------------
(* Classifiers of utils with a supplied keyword table: getJobCategory and   *)
(* getExperienceLevel; the tables of config/categories.js                   *)

\* a keyword table is a sequence of [label, keywords] in the order of
\* Object.entries; config.categories.<name> absent is supplied = FALSE
NoTable == [supplied |-> FALSE, table |-> <<>>]
Supplied(table) == [supplied |-> TRUE, table |-> table]

\* levels[label], an absent label giving no keywords
KeywordsOf(table, label) ==
    IF \E i \in 1..Len(table) : table[i].label = label
    THEN table[CHOOSE i \in 1..Len(table) : table[i].label = label].keywords
    ELSE <<>>

\* the config argument of getExperienceLevel for a supplied levels table
LevelsConfigOf(levels) ==
    [hasLevels |-> levels.supplied,
     Senior |-> KeywordsOf(levels.table, "Senior"),
     EntryLevel |-> KeywordsOf(levels.table, "Entry-Level"),
     MidLevel |-> KeywordsOf(levels.table, "Mid-Level")]

\* index of the last entry of table with a keyword in text, 0 when none
LastMatch(table, text) ==
    IF \E i \in 1..Len(table) : AnyIncluded(text, table[i].keywords)
    THEN CHOOSE i \in 1..Len(table) :
            /\ AnyIncluded(text, table[i].keywords)
            /\ \A j \in (i + 1)..Len(table) : ~AnyIncluded(text, table[j].keywords)
    ELSE 0

\* index of the first entry of table with a keyword in text, 0 when none
FirstMatch(table, text) ==
    IF \E i \in 1..Len(table) : AnyIncluded(text, table[i].keywords)
    THEN CHOOSE i \in 1..Len(table) :
            /\ AnyIncluded(text, table[i].keywords)
            /\ \A j \in 1..(i - 1) : ~AnyIncluded(text, table[j].keywords)
    ELSE 0

\* the if-chain of getJobCategory below the config branch
FallbackCategories == <<
    [label |-> "Mobile Development",
     keywords |-> <<<<"i", "o", "s">>,
                   <<"a", "n", "d", "r", "o", "i", "d">>,
                   <<"m", "o", "b", "i", "l", "e">>>>],
    [label |-> "Frontend Development",
     keywords |-> <<<<"f", "r", "o", "n", "t", "e", "n", "d">>,
                   <<"f", "r", "o", "n", "t", "-", "e", "n", "d">>,
                   <<"r", "e", "a", "c", "t">>,
                   <<"v", "u", "e">>>>],
    [label |-> "Backend Development",
     keywords |-> <<<<"b", "a", "c", "k", "e", "n", "d">>,
                   <<"b", "a", "c", "k", "-", "e", "n", "d">>,
                   <<"a", "p", "i">>,
                   <<"s", "e", "r", "v", "e", "r">>>>],
    [label |-> "Machine Learning & AI",
     keywords |-> <<<<"m", "a", "c", "h", "i", "n", "e", " ", "l", "e", "a", "r", "n", "i", "n", "g">>,
                   <<"m", "l", " ">>,
                   <<"a", "i", " ">>,
                   <<"d", "e", "e", "p", " ", "l", "e", "a", "r", "n", "i", "n", "g">>>>],
    [label |-> "Data Science & Analytics",
     keywords |-> <<<<"d", "a", "t", "a", " ", "s", "c", "i", "e", "n", "t", "i", "s", "t">>,
                   <<"d", "a", "t", "a", " ", "a", "n", "a", "l", "y", "s", "t">>,
                   <<"a", "n", "a", "l", "y", "t", "i", "c", "s">>>>],
    [label |-> "DevOps & Infrastructure",
     keywords |-> <<<<"d", "e", "v", "o", "p", "s">>,
                   <<"i", "n", "f", "r", "a", "s", "t", "r", "u", "c", "t", "u", "r", "e">>,
                   <<"c", "l", "o", "u", "d">>>>],
    [label |-> "Security Engineering",
     keywords |-> <<<<"s", "e", "c", "u", "r", "i", "t", "y">>,
                   <<"c", "y", "b", "e", "r", "s", "e", "c", "u", "r", "i", "t", "y">>>>],
    [label |-> "Product Management",
     keywords |-> <<<<"p", "r", "o", "d", "u", "c", "t", " ", "m", "a", "n", "a", "g", "e", "r">>,
                   <<"p", "m", " ">>>>],
    [label |-> "Design",
     keywords |-> <<<<"d", "e", "s", "i", "g", "n">>,
                   <<"u", "x">>,
                   <<"u", "i">>>>],
    [label |-> "Full Stack Development",
     keywords |-> <<<<"f", "u", "l", "l", " ", "s", "t", "a", "c", "k">>,
                   <<"f", "u", "l", "l", "s", "t", "a", "c", "k">>>>]>>


\* `${title} ${description}`.toLowerCase() with description = '' by default
ClassifierText(title, description) ==
    ToLower(TemplateStr(title) \o <<" ">> \o
            (IF description = JsUndefined THEN EmptyStr ELSE description))

\* getJobCategory(title, description = '', config), the label as a string
getJobCategory(title, description, keywords) ==
    LET text == ClassifierText(title, description)
    IN  IF keywords.supplied /\ FirstMatch(keywords.table, text) # 0
        THEN keywords.table[FirstMatch(keywords.table, text)].label
        ELSE IF FirstMatch(FallbackCategories, text) # 0
        THEN FallbackCategories[FirstMatch(FallbackCategories, text)].label
        ELSE "Software Engineering"

\* keywords and experienceLevels of config/categories.js
ConfigKeywords == <<
    [label |-> "Mobile Development",
     keywords |-> <<<<"i", "o", "s">>,
                   <<"a", "n", "d", "r", "o", "i", "d">>,
                   <<"m", "o", "b", "i", "l", "e">>,
                   <<"r", "e", "a", "c", "t", " ", "n", "a", "t", "i", "v", "e">>,
                   <<"f", "l", "u", "t", "t", "e", "r">>,
                   <<"s", "w", "i", "f", "t">>,
                   <<"k", "o", "t", "l", "i", "n">>>>],
    [label |-> "Frontend Development",
     keywords |-> <<<<"f", "r", "o", "n", "t", "e", "n", "d">>,
                   <<"f", "r", "o", "n", "t", "-", "e", "n", "d">>,
                   <<"r", "e", "a", "c", "t">>,
                   <<"v", "u", "e">>,
                   <<"a", "n", "g", "u", "l", "a", "r">>,
                   <<"u", "i">>,
                   <<"u", "x", " ", "e", "n", "g", "i", "n", "e", "e", "r">>>>],
    [label |-> "Backend Development",
     keywords |-> <<<<"b", "a", "c", "k", "e", "n", "d">>,
                   <<"b", "a", "c", "k", "-", "e", "n", "d">>,
                   <<"a", "p", "i">>,
                   <<"s", "e", "r", "v", "e", "r">>,
                   <<"m", "i", "c", "r", "o", "s", "e", "r", "v", "i", "c", "e", "s">>>>],
    [label |-> "Full Stack Development",
     keywords |-> <<<<"f", "u", "l", "l", " ", "s", "t", "a", "c", "k">>,
                   <<"f", "u", "l", "l", "s", "t", "a", "c", "k">>,
                   <<"f", "u", "l", "l", "-", "s", "t", "a", "c", "k">>>>],
    [label |-> "Machine Learning & AI",
     keywords |-> <<<<"m", "a", "c", "h", "i", "n", "e", " ", "l", "e", "a", "r", "n", "i", "n", "g">>,
                   <<"m", "l", " ">>,
                   <<"a", "i", " ">>,
                   <<"a", "r", "t", "i", "f", "i", "c", "i", "a", "l", " ", "i", "n", "t", "e", "l", "l", "i", "g", "e", "n", "c", "e">>,
                   <<"d", "e", "e", "p", " ", "l", "e", "a", "r", "n", "i", "n", "g">>,
                   <<"n", "l", "p">>,
                   <<"c", "o", "m", "p", "u", "t", "e", "r", " ", "v", "i", "s", "i", "o", "n">>>>],
    [label |-> "Data Science & Analytics",
     keywords |-> <<<<"d", "a", "t", "a", " ", "s", "c", "i", "e", "n", "t", "i", "s", "t">>,
                   <<"d", "a", "t", "a", " ", "a", "n", "a", "l", "y", "s", "t">>,
                   <<"a", "n", "a", "l", "y", "t", "i", "c", "s">>,
                   <<"d", "a", "t", "a", " ", "e", "n", "g", "i", "n", "e", "e", "r">>,
                   <<"b", "u", "s", "i", "n", "e", "s", "s", " ", "i", "n", "t", "e", "l", "l", "i", "g", "e", "n", "c", "e">>>>],
    [label |-> "DevOps & Infrastructure",
     keywords |-> <<<<"d", "e", "v", "o", "p", "s">>,
                   <<"i", "n", "f", "r", "a", "s", "t", "r", "u", "c", "t", "u", "r", "e">>,
                   <<"c", "l", "o", "u", "d">>,
                   <<"p", "l", "a", "t", "f", "o", "r", "m">>,
                   <<"s", "r", "e">>,
                   <<"s", "i", "t", "e", " ", "r", "e", "l", "i", "a", "b", "i", "l", "i", "t", "y">>>>],
    [label |-> "Security Engineering",
     keywords |-> <<<<"s", "e", "c", "u", "r", "i", "t", "y">>,
                   <<"c", "y", "b", "e", "r", "s", "e", "c", "u", "r", "i", "t", "y">>,
                   <<"i", "n", "f", "o", "s", "e", "c">>,
                   <<"i", "n", "f", "o", "r", "m", "a", "t", "i", "o", "n", " ", "s", "e", "c", "u", "r", "i", "t", "y">>>>],
    [label |-> "Product Management",
     keywords |-> <<<<"p", "r", "o", "d", "u", "c", "t", " ", "m", "a", "n", "a", "g", "e", "r">>,
                   <<"p", "r", "o", "d", "u", "c", "t", " ", "o", "w", "n", "e", "r">>,
                   <<"p", "m", " ">>,
                   <<"p", "r", "o", "d", "u", "c", "t", " ", "l", "e", "a", "d">>>>],
    [label |-> "Design",
     keywords |-> <<<<"d", "e", "s", "i", "g", "n">>,
                   <<"u", "x", " ">>,
                   <<"u", "i", " ">>,
                   <<"u", "s", "e", "r", " ", "e", "x", "p", "e", "r", "i", "e", "n", "c", "e">>,
                   <<"u", "s", "e", "r", " ", "i", "n", "t", "e", "r", "f", "a", "c", "e">>,
                   <<"g", "r", "a", "p", "h", "i", "c", " ", "d", "e", "s", "i", "g", "n">>,
                   <<"p", "r", "o", "d", "u", "c", "t", " ", "d", "e", "s", "i", "g", "n">>>>]>>

ConfigExperienceLevels == <<
    [label |-> "Entry-Level",
     keywords |-> <<<<"e", "n", "t", "r", "y">>,
                   <<"j", "u", "n", "i", "o", "r">>,
                   <<"j", "r", ".">>,
                   <<"i", "n", "t", "e", "r", "n">>,
                   <<"i", "n", "t", "e", "r", "n", "s", "h", "i", "p">>,
                   <<"a", "s", "s", "o", "c", "i", "a", "t", "e">>,
                   <<"l", "e", "v", "e", "l", " ", "1">>,
                   <<"l", "1">>,
                   <<"c", "a", "m", "p", "u", "s">>,
                   <<"s", "t", "u", "d", "e", "n", "t">>,
                   <<"n", "e", "w", " ", "g", "r", "a", "d">>,
                   <<"g", "r", "a", "d", "u", "a", "t", "e">>,
                   <<"e", "a", "r", "l", "y", " ", "c", "a", "r", "e", "e", "r">>,
                   <<"0", "-", "2", " ", "y", "e", "a", "r", "s">>>>],
    [label |-> "Mid-Level",
     keywords |-> <<<<"m", "i", "d">>,
                   <<"m", "i", "d", "-", "l", "e", "v", "e", "l">>,
                   <<"3", "-", "5", " ", "y", "e", "a", "r", "s">>,
                   <<"4", "-", "6", " ", "y", "e", "a", "r", "s">>>>],
    [label |-> "Senior",
     keywords |-> <<<<"s", "e", "n", "i", "o", "r">>,
                   <<"s", "r", ".">>,
                   <<"l", "e", "a", "d">>,
                   <<"p", "r", "i", "n", "c", "i", "p", "a", "l">>,
                   <<"s", "t", "a", "f", "f">>,
                   <<"a", "r", "c", "h", "i", "t", "e", "c", "t">>,
                   <<"5", "+", " ", "y", "e", "a", "r", "s">>,
                   <<"s", "e", "n", "i", "o", "r", " ", "l", "e", "v", "e", "l">>>>]>>

\* the table of the test "uses config when provided"
TestExperienceLevels == <<
    [label |-> "Senior",
     keywords |-> <<<<"e", "x", "p", "e", "r", "t">>,
                   <<"v", "e", "t", "e", "r", "a", "n">>>>],
    [label |-> "Entry-Level",
     keywords |-> <<<<"b", "e", "g", "i", "n", "n", "e", "r">>,
                   <<"n", "e", "w", "b", "i", "e">>>>],
    [label |-> "Mid-Level",
     keywords |-> <<<<"i", "n", "t", "e", "r", "m", "e", "d", "i", "a", "t", "e">>>>]>>

TwoCategories == <<
    [label |-> "Frontend Development",
     keywords |-> <<<<"r", "e", "a", "c", "t">>>>],
    [label |-> "Backend Development",
     keywords |-> <<<<"a", "p", "i">>>>]>>

Reverse(s) == [i \in 1..Len(s) |-> s[Len(s) + 1 - i]]

ClassifierTitles ==
    {<<"J", "u", "n", "i", "o", "r", " ", "S", "t", "a", "f", "f", " ", "E", "n", "g", "i", "n", "e", "e", "r">>,
     <<"E", "x", "p", "e", "r", "t", " ", "E", "n", "g", "i", "n", "e", "e", "r">>,
     <<"B", "e", "g", "i", "n", "n", "e", "r", " ", "E", "n", "g", "i", "n", "e", "e", "r">>,
     <<"S", "e", "n", "i", "o", "r", " ", "E", "n", "g", "i", "n", "e", "e", "r">>,
     <<"F", "l", "u", "t", "t", "e", "r", " ", "D", "e", "v", "e", "l", "o", "p", "e", "r">>,
     <<"R", "e", "a", "c", "t", " ", "A", "P", "I", " ", "D", "e", "v", "e", "l", "o", "p", "e", "r">>,
     <<"M", "i", "d", "-", "l", "e", "v", "e", "l", " ", "D", "a", "t", "a", " ", "A", "n", "a", "l", "y", "s", "t">>,
     <<"P", "l", "u", "m", "b", "e", "r">>}

ClassifierDescriptions == {JsUndefined, <<"C", "l", "o", "u", "d", " ", "p", "l", "a", "t", "f", "o", "r", "m", " ", "f", "o", "r", " ", "e", "x", "p", "e", "r", "t", " ", "i", "n", "t", "e", "r", "n", "s">>}

KeywordTables == {NoTable, Supplied(ConfigKeywords), Supplied(TwoCategories),
                  Supplied(Reverse(TwoCategories))}

LevelTables == {NoTable, Supplied(ConfigExperienceLevels), Supplied(TestExperienceLevels),
                Supplied(Reverse(ConfigExperienceLevels))}

ClassifyIdle ==
    /\ kTitle = JsUndefined /\ kDescription = JsUndefined
    /\ kKeywords = NoTable /\ kLevels = NoTable
    /\ kVerdict = [fn |-> "none", label |-> "", unconfigured |-> ""]
    /\ kPc = "off"

ClassifyInit ==
    /\ kTitle \in ClassifierTitles
    /\ kDescription \in ClassifierDescriptions
    /\ kKeywords \in KeywordTables
    /\ kLevels \in LevelTables
    /\ kVerdict = [fn |-> "none", label |-> "", unconfigured |-> ""]
    /\ kPc = "call"

\* getJobCategory with the supplied table, and with no config
CallGetJobCategory ==
    /\ kPc = "call"
    /\ kVerdict' = [fn |-> "category",
                    label |-> getJobCategory(kTitle, kDescription, kKeywords),
                    unconfigured |-> getJobCategory(kTitle, kDescription, NoTable)]
    /\ kPc' = "done"
    /\ UNCHANGED <<kTitle, kDescription, kKeywords, kLevels>>

\* getExperienceLevel with the supplied table, and with no config
CallGetExperienceLevel ==
    /\ kPc = "call"
    /\ kVerdict' = [fn |-> "level",
                    label |-> getExperienceLevel(kTitle, kDescription, LevelsConfigOf(kLevels)),
                    unconfigured |-> getExperienceLevel(kTitle, kDescription, NoLevelsConfig)]
    /\ kPc' = "done"
    /\ UNCHANGED <<kTitle, kDescription, kKeywords, kLevels>>

----------------------------------------------------------------------------
(* Ids of utils: generateEnhancedId and generateJobIdFromUrl *)

\* a || b || c || '' over string-or-undefined fields
FirstTruthy(fields) ==
    IF \E i \in 1..Len(fields) : Truthy(fields[i])
    THEN fields[CHOOSE i \in 1..Len(fields) :
                    Truthy(fields[i]) /\ \A j \in 1..(i - 1) : ~Truthy(fields[j])]
    ELSE EmptyStr

\* \b at the left of position i and at the right of position i of s, for a
\* word character at i
BoundaryBefore(s, i) == i = 1 \/ s[i - 1] \notin WordChars
BoundaryAfter(s, i) == i = Len(s) \/ s[i + 1] \notin WordChars

\* s.replace(/\bword\b/g, rep) from position i on, for a word of word
\* characters
RECURSIVE ReplaceWordFrom(_, _, _, _)
ReplaceWordFrom(s, i, word, rep) ==
    IF i > Len(s) THEN <<>>
    ELSE IF /\ i + Len(word) - 1 <= Len(s)
            /\ SubSeq(s, i, i + Len(word) - 1) = word
            /\ BoundaryBefore(s, i)
            /\ BoundaryAfter(s, i + Len(word) - 1)
         THEN rep \o ReplaceWordFrom(s, i + Len(word), word, rep)
         ELSE <<s[i]>> \o ReplaceWordFrom(s, i + 1, word, rep)

ReplaceWord(s, word, rep) == ReplaceWordFrom(s, 1, word, rep)

\* s.replace(/\bword\.?\b/g, rep): the dot belongs to the match only when a
\* word character follows it
RECURSIVE ReplaceAbbrevFrom(_, _, _, _)
ReplaceAbbrevFrom(s, i, word, rep) ==
    LET e == i + Len(word) - 1
    IN  IF i > Len(s) THEN <<>>
        ELSE IF e <= Len(s) /\ SubSeq(s, i, e) = word /\ BoundaryBefore(s, i)
        THEN IF e + 2 <= Len(s) /\ s[e + 1] = "." /\ s[e + 2] \in WordChars
             THEN rep \o ReplaceAbbrevFrom(s, e + 2, word, rep)
             ELSE IF BoundaryAfter(s, e)
             THEN rep \o ReplaceAbbrevFrom(s, e + 1, word, rep)
             ELSE <<s[i]>> \o ReplaceAbbrevFrom(s, i + 1, word, rep)
        ELSE <<s[i]>> \o ReplaceAbbrevFrom(s, i + 1, word, rep)

ReplaceAbbrev(s, word, rep) == ReplaceAbbrevFrom(s, 1, word, rep)

\* s.replace(/\b&\b/g, 'and'): an ampersand between two word characters
ReplaceAmpersand(s) ==
    LET piece(i) == IF s[i] = "&" /\ i > 1 /\ i < Len(s)
                       /\ s[i - 1] \in WordChars /\ s[i + 1] \in WordChars
                    THEN <<"a", "n", "d">> ELSE <<s[i]>>
        pieces == [i \in 1..Len(s) |-> piece(i)]
    IN  Join(pieces, <<>>)

\* s.replace(/\s*,\s*/g, '-') from position i on
RECURSIVE ReplaceCommasFrom(_, _)
ReplaceCommasFrom(s, i) ==
    LET rest == SubSeq(s, i, Len(s))
        comma == i + (Len(rest) - Len(DropWhileIn(rest, SpaceChars)))
        after == SubSeq(s, comma + 1, Len(s))
    IN  IF i > Len(s) THEN <<>>
        ELSE IF comma <= Len(s) /\ s[comma] = ","
        THEN <<"-">> \o ReplaceCommasFrom(s, comma + 1 + (Len(after) - Len(DropWhileIn(after, SpaceChars))))
        ELSE <<s[i]>> \o ReplaceCommasFrom(s, i + 1)

ReplaceCommas(s) == ReplaceCommasFrom(s, 1)

\* the title of generateEnhancedId: numerals and abbreviations, then spaces
EnhancedTitle(job) ==
    LET t0 == Trim(ToLower(FirstTruthy(<<job.title, job.job_title>>)))
        t1 == ReplaceWord(t0, <<"i">>, <<"1">>)
        t2 == ReplaceWord(t1, <<"i", "i">>, <<"2">>)
        t3 == ReplaceWord(t2, <<"i", "i", "i">>, <<"3">>)
        t4 == ReplaceWord(t3, <<"i", "v">>, <<"4">>)
        t5 == ReplaceWord(t4, <<"v">>, <<"5">>)
        t6 == ReplaceAbbrev(t5, <<"s", "r">>, <<"s", "e", "n", "i", "o", "r">>)
        t7 == ReplaceAbbrev(t6, <<"j", "r">>, <<"j", "u", "n", "i", "o", "r">>)
        t8 == ReplaceAmpersand(t7)
    IN  ReplaceRuns(t8, SpaceChars, <<"-">>)

EnhancedLegalSuffixes ==
    {<<"i", "n", "c">>,
     <<"i", "n", "c", ".">>,
     <<"i", "n", "c", "o", "r", "p", "o", "r", "a", "t", "e", "d">>,
     <<"l", "l", "c">>,
     <<"c", "o", "r", "p">>,
     <<"c", "o", "r", "p", ".">>,
     <<"c", "o", "r", "p", "o", "r", "a", "t", "i", "o", "n">>,
     <<"l", "t", "d">>,
     <<"l", "t", "d", ".">>,
     <<"l", "i", "m", "i", "t", "e", "d">>}

\* the company of generateEnhancedId: suffixes, then commas and spaces
EnhancedCompany(job) ==
    LET c0 == Trim(ToLower(FirstTruthy(<<job.company_name, job.employer_name, job.company>>)))
        c1 == StripSuffixWord(c0, EnhancedLegalSuffixes, FALSE)
        c2 == StripSuffixWord(c1, {<<"s", "o", "l", "u", "t", "i", "o", "n">>, <<"s", "o", "l", "u", "t", "i", "o", "n", "s">>}, FALSE)
        c3 == StripSuffixWord(c2, {<<"t", "e", "c", "h", "n", "o", "l", "o", "g", "i", "e">>, <<"t", "e", "c", "h", "n", "o", "l", "o", "g", "i", "e", "s">>}, FALSE)
        c4 == StripSuffixWord(c3, {<<"s", "y", "s", "t", "e", "m">>, <<"s", "y", "s", "t", "e", "m", "s">>}, FALSE)
        c5 == StripSuffixWord(c4, {<<"g", "r", "o", "u", "p">>}, FALSE)
    IN  ReplaceRuns(ReplaceCommas(c5), SpaceChars, <<"-">>)

\* the city of generateEnhancedId; job.locations is the array, empty when
\* the field is absent
EnhancedCity(job) ==
    ReplaceRuns(Trim(ToLower(IF Len(job.locations) > 0 THEN job.locations[1]
                             ELSE FirstTruthy(<<job.job_city, job.location>>))),
                SpaceChars, <<"-">>)

\* normalize(str) of generateEnhancedId
EnhancedNormalize(str) ==
    StripEdgeHyphens(ReplaceRuns(ReplaceOutside(str, WordChars \cup {"-"}, "-"),
                                 {"-"}, <<"-">>))

\* generateEnhancedId(job), for a non-null job
generateEnhancedId(job) ==
    EnhancedNormalize(EnhancedCompany(job)) \o <<"-">>
        \o EnhancedNormalize(EnhancedTitle(job)) \o <<"-">>
        \o EnhancedNormalize(EnhancedCity(job))

\* generateJobIdFromUrl(job), for a non-null job
generateJobIdFromUrl(job) ==
    LET jobUrl == FirstTruthy(<<job.url, job.job_apply_link>>)
        url == IF Truthy(jobUrl) THEN ParseUrl(jobUrl)
               ELSE [ok |-> FALSE, hostname |-> EmptyStr, pathname |-> EmptyStr]
    IN  IF url.ok
        THEN SanitizeUrlId(url.hostname \o StripTrailingSlash(url.pathname))
        ELSE generateEnhancedId(job)

\* a job carrying an apply URL built from scheme, host, path and a query or
\* fragment, in job_apply_link (JSearch shape) or in url (ATS shape)
UrlOf(parts) == parts.scheme \o parts.host \o parts.path \o parts.suffix

UrlJob(parts, carrier, other) ==
    [url |-> IF carrier = "url" THEN UrlOf(parts) ELSE JsUndefined,
     job_apply_link |-> IF carrier = "job_apply_link" THEN UrlOf(parts) ELSE JsUndefined,
     title |-> JsUndefined, job_title |-> other.title,
     company_name |-> JsUndefined, employer_name |-> other.company, company |-> JsUndefined,
     locations |-> <<>>, job_city |-> other.city, location |-> JsUndefined]

UrlSchemes == {<<"h", "t", "t", "p", "s", ":", "/", "/">>, <<"h", "t", "t", "p", ":", "/", "/">>, EmptyStr}
UrlHosts == {<<"a", "c", "m", "e", ".", "c", "o", "m">>, <<"A", "c", "m", "e", ".", "c", "o", "m">>, <<"j", "o", "b", "s", ".", "i", "o">>}
UrlPaths == {EmptyStr, <<"/">>, <<"/", "j", "o", "b", "s", "/", "4", "2">>, <<"/", "j", "o", "b", "s", "/", "4", "2", "/">>}
UrlSuffixes == {EmptyStr, <<"?", "r", "e", "f", "=", "x">>, <<"#", "t", "o", "p">>}

UrlParts == [scheme : UrlSchemes, host : UrlHosts, path : UrlPaths, suffix : UrlSuffixes]

OtherFields ==
    {[title |-> <<"E", "n", "g", "i", "n", "e", "e", "r", " ", "I", "I">>, company |-> <<"A", "c", "m", "e", " ", "I", "n", "c", ".">>, city |-> <<"A", "u", "s", "t", "i", "n">>],
     [title |-> <<"S", "r", ".", " ", "D", "e", "v", " ", "&", " ", "O", "p", "s">>, company |-> <<"B", "o", "l", "t", " ", "S", "y", "s", "t", "e", "m", "s", ",", " ", "L", "L", "C">>, city |-> JsUndefined]}

JobIdIdle ==
    /\ jPartsA = [scheme |-> EmptyStr, host |-> EmptyStr, path |-> EmptyStr, suffix |-> EmptyStr]
    /\ jPartsB = [scheme |-> EmptyStr, host |-> EmptyStr, path |-> EmptyStr, suffix |-> EmptyStr]
    /\ jCarrier = "none" /\ jOther = <<>> /\ jIds = <<>> /\ jPc = "off"

\* two jobs: each its own apply URL, the same carrier field, other fields
\* equal or different
JobIdInit ==
    /\ jPartsA \in UrlParts
    /\ jPartsB \in {p \in UrlParts : p.scheme = EmptyStr <=> jPartsA.scheme = EmptyStr}
    /\ jCarrier \in {"job_apply_link", "url"}
    /\ jOther \in {<<a, b>> : a \in OtherFields, b \in OtherFields}
    /\ jIds = <<>>
    /\ jPc = "call"

\* generateJobId of the pipeline and generateJobIdFromUrl of utils on both
CallGenerateJobId ==
    /\ jPc = "call"
    /\ jIds' = [i \in 1..2 |->
                  LET job == UrlJob(IF i = 1 THEN jPartsA ELSE jPartsB, jCarrier, jOther[i])
                  IN  [processor |-> generateJobId(job), utils |-> generateJobIdFromUrl(job)]]
    /\ jPc' = "done"
    /\ UNCHANGED <<jPartsA, jPartsB, jCarrier, jOther>>

----------------------------------------------------------------------------
(* Fingerprints: generateJobFingerprint of lib/job-processor.js and of utils *)

\* last position of the run of word characters that starts at position i
RECURSIVE WordRunEnd(_, _)
WordRunEnd(s, i) == IF i < Len(s) /\ s[i + 1] \in WordChars THEN WordRunEnd(s, i + 1) ELSE i

\* s.replace(/\b(w1|w2\.?|...)\b/g, '') from position i on: a whole word that
\* is one of the alternatives is removed; after an alternative written with
\* \.? the dot is removed too when a word character follows it
RECURSIVE RemoveTokensFrom(_, _, _, _)
RemoveTokensFrom(s, i, plain, dotted) ==
    IF i > Len(s) THEN <<>>
    ELSE IF s[i] \notin WordChars THEN <<s[i]>> \o RemoveTokensFrom(s, i + 1, plain, dotted)
    ELSE LET e == WordRunEnd(s, i)
             w == SubSeq(s, i, e)
         IN  IF w \in dotted /\ e + 2 <= Len(s) /\ s[e + 1] = "." /\ s[e + 2] \in WordChars
             THEN RemoveTokensFrom(s, e + 2, plain, dotted)
             ELSE IF w \in plain \cup dotted
             THEN RemoveTokensFrom(s, e + 1, plain, dotted)
             ELSE w \o RemoveTokensFrom(s, e + 1, plain, dotted)

RemoveTokens(s, plain, dotted) == RemoveTokensFrom(s, 1, plain, dotted)

\* senior|junior|staff|principal|lead|associate and sr\.?|jr\.?
SeniorityWords ==
    {<<"s", "e", "n", "i", "o", "r">>, <<"j", "u", "n", "i", "o", "r">>, <<"s", "t", "a", "f", "f">>,
     <<"p", "r", "i", "n", "c", "i", "p", "a", "l">>, <<"l", "e", "a", "d">>,
     <<"a", "s", "s", "o", "c", "i", "a", "t", "e">>}
SeniorityAbbreviations == {<<"s", "r">>, <<"j", "r">>}

\* i{1,3}|iv|v|1|2|3|4|5
LevelNumerals ==
    {<<"i">>, <<"i", "i">>, <<"i", "i", "i">>, <<"i", "v">>, <<"v">>, <<"1">>, <<"2">>, <<"3">>, <<"4">>, <<"5">>}

\* s.replace(/\s+-\s+[^-]+$/, ''): the last hyphen of s, with whitespace
\* before it and whitespace plus at least one more character after it, is
\* removed with everything around and after it
StripDashSuffix(s) ==
    LET hyphens == {i \in 1..Len(s) : s[i] = "-"}
        h == CHOOSE i \in hyphens : \A j \in hyphens : j <= i
    IN  IF /\ hyphens # {}
           /\ h > 1 /\ s[h - 1] \in SpaceChars
           /\ h + 2 <= Len(s) /\ s[h + 1] \in SpaceChars
        THEN TrimRight(SubSeq(s, 1, h - 1))
        ELSE s

\* s.split(',')[0]
SplitFirst(s) == SubSeq(s, 1, FirstIn(s, {","}) - 1)

\* inc\.?|llc|corp\.?|ltd\.? of job-processor.js
ProcessorLegalSuffixes ==
    {<<"i", "n", "c">>, <<"i", "n", "c", ".">>, <<"l", "l", "c">>, <<"c", "o", "r", "p">>, <<"c", "o", "r", "p", ".">>, <<"l", "t", "d">>, <<"l", "t", "d", ".">>}

\* generateJobFingerprint(job) of lib/job-processor.js, for a non-null job
generateJobFingerprint(job) ==
    LET title == Trim(ReplaceRuns(RemoveTokens(ToLower(OrEmpty(job.job_title)),
                                               SeniorityWords, SeniorityAbbreviations),
                                  SpaceChars, <<" ">>))
        company == Trim(StripSuffixWord(ToLower(OrEmpty(job.employer_name)),
                                        ProcessorLegalSuffixes, FALSE))
        location == Trim(ToLower(SplitFirst(OrEmpty(job.job_city))))
    IN  Join(<<company, title, location>>, <<":", ":">>)

\* inc\.?|llc|corp\.?|corporation|ltd\.?|limited|gmbh|co|company of utils
UtilsLegalSuffixes ==
    ProcessorLegalSuffixes
        \cup {<<"c", "o", "r", "p", "o", "r", "a", "t", "i", "o", "n">>, <<"l", "i", "m", "i", "t", "e", "d">>, <<"g", "m", "b", "h">>, <<"c", "o">>, <<"c", "o", "m", "p", "a", "n", "y">>}

\* normalizeCompanyNameStr(company)
normalizeCompanyNameStr(company) ==
    IF ~Truthy(company) THEN EmptyStr
    ELSE ReplaceRuns(StripSuffixWord(Trim(ToLower(company)), UtilsLegalSuffixes, FALSE),
                     SpaceChars, <<" ">>)

\* generateJobFingerprint(job) of utils, for a non-null job; job.locations
\* is the array, empty when the field is absent
utils_generateJobFingerprint(job) ==
    LET t0 == Trim(ToLower(FirstTruthy(<<job.title, job.job_title>>)))
        t1 == RemoveTokens(t0, SeniorityWords, SeniorityAbbreviations)
        t2 == RemoveTokens(t1, LevelNumerals, {})
        t3 == StripDashSuffix(t2)
        title == Trim(ReplaceRuns(t3, SpaceChars, <<" ">>))
        company == normalizeCompanyNameStr(FirstTruthy(<<job.company_name, job.employer_name, job.company>>))
        location == Trim(ToLower(SplitFirst(IF Len(job.locations) > 0 THEN job.locations[1]
                                            ELSE FirstTruthy(<<job.job_city, job.location>>))))
    IN  Join(<<company, title, location>>, <<":", ":">>)

\* a job in the JSearch shape (job_title, employer_name, job_city) or in the
\* ATS shape (title, company_name, location)
FingerprintJob(shape, title, company, city) ==
    [title |-> IF shape = "ats" THEN title ELSE JsUndefined,
     job_title |-> IF shape = "jsearch" THEN title ELSE JsUndefined,
     company_name |-> IF shape = "ats" THEN company ELSE JsUndefined,
     employer_name |-> IF shape = "jsearch" THEN company ELSE JsUndefined,
     company |-> JsUndefined,
     locations |-> <<>>,
     job_city |-> IF shape = "jsearch" THEN city ELSE JsUndefined,
     location |-> IF shape = "ats" THEN city ELSE JsUndefined]

FingerprintTitles ==
    {<<"S", "o", "f", "t", "w", "a", "r", "e", " ", "E", "n", "g", "i", "n", "e", "e", "r">>,
     <<"D", "a", "t", "a", " ", "A", "n", "a", "l", "y", "s", "t">>,
     <<"E", "n", "g", "i", "n", "e", "e", "r", " ", "-", " ", "L", "e", "a", "d">>,
     <<"D", "e", "v", "e", "l", "o", "p", "e", "r", " ", "-", " ", "B", "a", "c", "k", "e", "n", "d">>,
     <<"Q", "A">>}
FingerprintCompanies == {<<"G", "o", "o", "g", "l", "e">>, <<"A", "c", "m", "e", " ", "I", "n", "c", ".">>, <<"B", "o", "l", "t", " ", " ", "C", "o">>, JsUndefined}
FingerprintCities == {<<"S", "F">>, <<"A", "u", "s", "t", "i", "n", ",", " ", "T", "X">>, EmptyStr, JsUndefined}

IdentityIdle ==
    /\ pTitle = EmptyStr /\ pCompany = EmptyStr /\ pCity = EmptyStr
    /\ pShape = "none" /\ pPrints = <<>> /\ pPc = "off"
    /\ nFn = "none" /\ nJob = [given |-> "undefined", fields |-> <<>>]
    /\ nOutcome = [threw |-> FALSE, error |-> EmptyStr, value |-> EmptyStr] /\ nPc = "off"

\* a title X, and the company and location the two jobs share
IdentityInit ==
    /\ pTitle \in FingerprintTitles
    /\ pCompany \in FingerprintCompanies
    /\ pCity \in FingerprintCities
    /\ pShape \in {"jsearch", "ats"}
    /\ pPrints = <<>>
    /\ pPc = "call"

\* both generateJobFingerprint functions on the job titled "Senior X" and on
\* the job titled "X II"
CallGenerateJobFingerprint ==
    /\ pPc = "call"
    /\ LET senior == FingerprintJob(pShape, <<"S", "e", "n", "i", "o", "r", " ">> \o pTitle, pCompany, pCity)
           second == FingerprintJob(pShape, pTitle \o <<" ", "I", "I">>, pCompany, pCity)
       IN  pPrints' = [processor |-> <<generateJobFingerprint(senior), generateJobFingerprint(second)>>,
                       utils |-> <<utils_generateJobFingerprint(senior), utils_generateJobFingerprint(second)>>]
    /\ pPc' = "done"
    /\ UNCHANGED <<pTitle, pCompany, pCity, pShape, nFn, nJob, nOutcome, nPc>>

----------------------------------------------------------------------------
(* The identity functions called with null, undefined or a job object *)

\* generateJobIdHash(job) of utils, for a non-null job
generateJobIdHash(job) ==
    LET company == normalizeCompanyNameStr(FirstTruthy(<<job.company_name, job.employer_name, job.company>>))
        title == Trim(ToLower(FirstTruthy(<<job.title, job.job_title>>)))
        location == FirstTruthy(<<job.location, job.job_city>>)
        hashInput == Trim(ToLower(Join(<<company, title, location>>, <<"|">>)))
    IN  HexPrefix8(Sha256Hex(hashInput))

\* s.replace(/[-_\s]+$/, '')
RECURSIVE StripTrailingSeparators(_)
StripTrailingSeparators(s) ==
    IF s # <<>> /\ s[Len(s)] \in SpaceChars \cup {"-", "_"}
    THEN StripTrailingSeparators(SubSeq(s, 1, Len(s) - 1))
    ELSE s

\* generateMinimalJobFingerprint(job) of utils, for a non-null job
generateMinimalJobFingerprint(job) ==
    LET t0 == Trim(ToLower(FirstTruthy(<<job.title, job.job_title>>)))
        title == Trim(ReplaceRuns(StripTrailingSeparators(t0), SpaceChars, <<" ">>))
        company == normalizeCompanyNameStr(FirstTruthy(<<job.company_name, job.employer_name, job.company>>))
        location == Trim(ToLower(SplitFirst(IF Len(job.locations) > 0 THEN job.locations[1]
                                            ELSE FirstTruthy(<<job.job_city, job.location>>))))
    IN  Join(<<company, title, location>>, <<":", ":">>)

\* what a call does: it returns a value or throws an error
Returned(value) == [threw |-> FALSE, error |-> EmptyStr, value |-> value]
Threw(error) == [threw |-> TRUE, error |-> error, value |-> EmptyStr]
NotCalled == [threw |-> FALSE, error |-> EmptyStr, value |-> <<"(not called)">>]

\* throw new Error('Job object is required')
JobRequiredError == <<"J", "o", "b", " ", "o", "b", "j", "e", "c", "t", " ", "i", "s", " ", "r", "e", "q", "u", "i", "r", "e", "d">>

\* the TypeError of reading a property of null or undefined
PropertyTypeError == <<"(TypeError)">>

JsNull == <<"(null)">>

\* the argument of a call: null, undefined, or an object with these fields
NullArg == [given |-> "null", fields |-> <<>>]
UndefinedArg == [given |-> "undefined", fields |-> <<>>]
ObjectArg(fields) == [given |-> "object", fields |-> fields]

IdentityFunctions ==
    {"jobId.generateJobId", "deduplication.generateFingerprint",
     "deduplication.isDuplicate", "deduplication.filterDuplicates",
     "deduplication.enrichJob",
     "utils.generateJobId", "utils.generateJobIdFromUrl", "utils.generateEnhancedId",
     "utils.generateJobIdHash", "utils.generateJobFingerprint",
     "utils.generateMinimalJobFingerprint",
     "job-processor.generateJobId", "job-processor.generateJobFingerprint"}

\* fn(job), or fn(job, []) for isDuplicate and fn([job]) for filterDuplicates.
\* The functions that begin with if (!job) take that branch for null and
\* undefined; the others read a property of job first, which throws a
\* TypeError for null and undefined.
IdentityCall(fn, job) ==
    LET isObject == job.given = "object"
        j == job.fields
    IN  CASE fn = "jobId.generateJobId" ->
                IF ~isObject THEN Threw(JobRequiredError) ELSE Returned(jobId_generateJobId(j))
          [] fn = "deduplication.generateFingerprint" ->
                IF ~isObject THEN Threw(JobRequiredError) ELSE Returned(generateFingerprint(j))
          [] fn = "deduplication.isDuplicate" ->
                IF ~isObject THEN Returned(<<"I", "n", "v", "a", "l", "i", "d", " ", "i", "n", "p", "u", "t">>)
                ELSE Returned(<<"N", "o", " ", "m", "a", "t", "c", "h", " ", "f", "o", "u", "n", "d">>)
          [] fn = "deduplication.filterDuplicates" ->
                IF ~isObject THEN Threw(PropertyTypeError)
                ELSE Returned(AssignIdentity(j).id)
          [] fn = "deduplication.enrichJob" ->
                IF ~isObject THEN Returned(JsNull) ELSE Returned(AssignIdentity(j).id)
          [] fn \in {"utils.generateJobId", "utils.generateJobIdFromUrl"} ->
                IF ~isObject THEN Threw(PropertyTypeError) ELSE Returned(generateJobIdFromUrl(j))
          [] fn = "utils.generateEnhancedId" ->
                IF ~isObject THEN Threw(PropertyTypeError) ELSE Returned(generateEnhancedId(j))
          [] fn = "utils.generateJobIdHash" ->
                IF ~isObject THEN Threw(PropertyTypeError) ELSE Returned(generateJobIdHash(j))
          [] fn = "utils.generateJobFingerprint" ->
                IF ~isObject THEN Threw(PropertyTypeError)
                ELSE Returned(utils_generateJobFingerprint(j))
          [] fn = "utils.generateMinimalJobFingerprint" ->
                IF ~isObject THEN Threw(PropertyTypeError)
                ELSE Returned(generateMinimalJobFingerprint(j))
          [] fn = "job-processor.generateJobId" ->
                IF ~isObject THEN Threw(PropertyTypeError) ELSE Returned(generateJobId(j))
          [] fn = "job-processor.generateJobFingerprint" ->
                IF ~isObject THEN Threw(PropertyTypeError)
                ELSE Returned(generateJobFingerprint(j))

\* a job object with the fields the identity functions read, each a string
\* or absent
IdentityJob(company, title, location) ==
    [company |-> company, title |-> title, location |-> location,
     experience_level |-> JsUndefined, employment_type |-> JsUndefined,
     id |-> JsUndefined, fingerprint |-> JsUndefined,
     url |-> JsUndefined, job_apply_link |-> JsUndefined,
     job_title |-> JsUndefined, company_name |-> JsUndefined,
     employer_name |-> JsUndefined, locations |-> <<>>, job_city |-> JsUndefined]

IdentityArgs ==
    {NullArg, UndefinedArg,
     ObjectArg(IdentityJob(JsUndefined, JsUndefined, JsUndefined)),
     ObjectArg(IdentityJob(JsUndefined, <<"E", "n", "g", "i", "n", "e", "e", "r", " ", "I", "I">>, EmptyStr)),
     ObjectArg(IdentityJob(<<"A", "c", "m", "e", " ", "I", "n", "c", ".">>, <<"S", "r", ".", " ", "D", "e", "v">>, <<"A", "u", "s", "t", "i", "n", ",", " ", "T", "X">>))}

\* one identity function and one argument
NullCallInit ==
    /\ nFn \in IdentityFunctions
    /\ nJob \in IdentityArgs
    /\ nOutcome = NotCalled
    /\ nPc = "call"

CallIdentityFunction ==
    /\ nPc = "call"
    /\ nOutcome' = IdentityCall(nFn, nJob)
    /\ nPc' = "done"
    /\ UNCHANGED <<nFn, nJob, pTitle, pCompany, pCity, pShape, pPrints, pPc>>

----------------------------------------------------------------------------
(* The company database of utils: module variables and module.exports *)

\* Object.values(companies).flat(): the companies of every category, in
\* key order
RECURSIVE Flat(_)
Flat(lists) == IF lists = <<>> THEN <<>> ELSE Head(lists) \o Flat(Tail(lists))

\* obj[key] = value on an object kept as a function from its keys
PutKey(obj, key, value) == (key :> value) @@ obj

\* company.api_names.forEach(name => { COMPANY_BY_NAME[name.toLowerCase()] = company })
RECURSIVE PutApiNames(_, _, _)
PutApiNames(obj, company, i) ==
    IF i > Len(company.api_names) THEN obj
    ELSE PutApiNames(PutKey(obj, ToLower(company.api_names[i]), company), company, i + 1)

\* ALL_COMPANIES.forEach(company => { ... }) from position i on
RECURSIVE IndexCompanies(_, _, _)
IndexCompanies(obj, all, i) ==
    IF i > Len(all) THEN obj
    ELSE IndexCompanies(PutApiNames(PutKey(obj, ToLower(all[i].name), all[i]), all[i], 1),
                        all, i + 1)

\* the heap after module load: companies = {}, ALL_COMPANIES = [],
\* COMPANY_BY_NAME = {}; a binding holds the position of its object
EmptyObject == <<>>
LoadedHeap == <<EmptyObject, <<>>, EmptyObject>>
LoadedBindings == [companies |-> 1, ALL_COMPANIES |-> 2, COMPANY_BY_NAME |-> 3]

\* initCompanyDatabase(companiesData): data.isNull is !companiesData.  The
\* three module variables are bound to new objects; the objects they were
\* bound to are left as they are.
initCompanyDatabase(heap, bindings, data) ==
    IF data.isNull THEN [heap |-> heap, bindings |-> bindings]
    ELSE LET all == Flat(data.categories)
             byName == IndexCompanies(EmptyObject, all, 1)
             n == Len(heap)
         IN  [heap |-> heap \o <<data.categories, all, byName>>,
              bindings |-> [companies |-> n + 1, ALL_COMPANIES |-> n + 2,
                            COMPANY_BY_NAME |-> n + 3]]

Company(name, api_names) == [name |-> name, api_names |-> api_names]

NullData == [isNull |-> TRUE, categories |-> <<>>]
CompanyData(categories) == [isNull |-> FALSE, categories |-> categories]

CompanyDataPool ==
    {NullData,
     CompanyData(<<>>),
     CompanyData(<< <<Company(<<"G", "o", "o", "g", "l", "e">>, <<<<"g", "o", "o", "g", "l", "e", " ", "l", "l", "c">>, <<"a", "l", "p", "h", "a", "b", "e", "t">>>>),
                      Company(<<"M", "e", "t", "a">>, <<<<"f", "a", "c", "e", "b", "o", "o", "k">>>>)>> >>),
     CompanyData(<< <<Company(<<"A", "c", "m", "e">>, <<>>)>>, <<Company(<<"B", "o", "l", "t">>, <<<<"B", "O", "L", "T", " ", "I", "n", "c">>>>)>> >>)}

NotYetRead == [ALL_COMPANIES |-> <<"(not read)">>, COMPANY_BY_NAME |-> EmptyObject]

CompanyIdle ==
    /\ qHeap = <<>> /\ qModule = [companies |-> 0, ALL_COMPANIES |-> 0, COMPANY_BY_NAME |-> 0]
    /\ qExports = [companies |-> 0, ALL_COMPANIES |-> 0, COMPANY_BY_NAME |-> 0]
    /\ qLast = NullData /\ qCalls = 0 /\ qSeen = NotYetRead

\* require('./utils'): module.exports = { companies, ALL_COMPANIES,
\* COMPANY_BY_NAME, ... } copies the three bindings as they are at load
CompanyInit ==
    /\ qHeap = LoadedHeap
    /\ qModule = LoadedBindings
    /\ qExports = LoadedBindings
    /\ qLast = NullData
    /\ qCalls = 0
    /\ qSeen = NotYetRead

\* utils.initCompanyDatabase(data)
CallInitCompanyDatabase ==
    /\ qCalls < MaxInitCalls
    /\ \E data \in CompanyDataPool :
          LET r == initCompanyDatabase(qHeap, qModule, data)
          IN  /\ qHeap' = r.heap
              /\ qModule' = r.bindings
              /\ qLast' = IF data.isNull THEN qLast ELSE data
    /\ qCalls' = qCalls + 1
    /\ UNCHANGED <<qExports, qSeen>>

\* a consumer reads utils.ALL_COMPANIES and utils.COMPANY_BY_NAME
ReadCompanyExports ==
    /\ qSeen' = [ALL_COMPANIES |-> qHeap[qExports.ALL_COMPANIES],
                 COMPANY_BY_NAME |-> qHeap[qExports.COMPANY_BY_NAME]]
    /\ UNCHANGED <<qHeap, qModule, qExports, qLast, qCalls>>

----------------------------------------------------------------------------
(* The logger: level filter, log functions, child loggers *)

\* const Levels = { DEBUG: 0, INFO: 1, WARN: 2, ERROR: 3, FATAL: 4 }
Levels == [DEBUG |-> 0, INFO |-> 1, WARN |-> 2, ERROR |-> 3, FATAL |-> 4]

\* setLevel(level): level.toUpperCase() when it is a key of Levels
setLevel(current, level) ==
    CASE level \in {"debug", "DEBUG"} -> Levels.DEBUG
      [] level \in {"info", "INFO"} -> Levels.INFO
      [] level \in {"warn", "WARN"} -> Levels.WARN
      [] level \in {"error", "ERROR"} -> Levels.ERROR
      [] level \in {"fatal", "FATAL"} -> Levels.FATAL
      [] OTHER -> current

\* log(level, levelName, message, context): the lines written so far with
\* the new line appended unless the level is below the current level
log(lines, current, levelName, prefix) ==
    IF Levels[levelName] < current THEN lines
    ELSE Append(lines, [level |-> levelName, prefix |-> prefix])

\* the level name and message prefix each log function hands to log()
LogFunctions ==
    [debug |-> [level |-> "DEBUG", prefix |-> ""],
     info |-> [level |-> "INFO", prefix |-> ""],
     warn |-> [level |-> "WARN", prefix |-> ""],
     error |-> [level |-> "ERROR", prefix |-> ""],
     fatal |-> [level |-> "FATAL", prefix |-> ""],
     start |-> [level |-> "INFO", prefix |-> "Starting: "],
     complete |-> [level |-> "INFO", prefix |-> "Completed: "]]

NoLogCall == [fn |-> "none", child |-> FALSE]

LoggerIdle ==
    /\ lLevel = 0 /\ lLines = <<>> /\ lExit = "off" /\ lLast = NoLogCall /\ lCalls = 0

\* let currentLevel = Levels.INFO; the process is running
LoggerInit ==
    /\ lLevel = Levels.INFO
    /\ lLines = <<>>
    /\ lExit = "running"
    /\ lLast = NoLogCall
    /\ lCalls = 0

\* logger.setLevel(level)
CallSetLevel ==
    /\ lExit = "running"
    /\ \E level \in {"debug", "INFO", "warn", "error", "FATAL", "verbose"} :
          lLevel' = setLevel(lLevel, level)
    /\ UNCHANGED <<lLines, lExit, lLast, lCalls>>

\* logger.fn(message) or logger.createChild(ctx).fn(message): the child's
\* function calls the logger's function with the merged context.  No log
\* function calls process.exit, so lExit stays as it is.
CallLogFunction ==
    /\ lExit = "running"
    /\ lCalls < MaxLogCalls
    /\ \E fn \in DOMAIN LogFunctions, child \in BOOLEAN :
          /\ lLines' = log(lLines, lLevel, LogFunctions[fn].level, LogFunctions[fn].prefix)
          /\ lLast' = [fn |-> fn, child |-> child]
    /\ lCalls' = lCalls + 1
    /\ UNCHANGED <<lLevel, lExit>>

----------------------------------------------------------------------------
(* processJobs as one operation, for runs that follow one another *)

\* the run saving archivedJobs in place of currentJobs
processJobs_saveArchived(jobs, file, filterNow, archiveNow) ==
    LET nullJob == \E i \in 1..Len(jobs) : jobs[i].isNull
        withIds == [i \in 1..Len(jobs) |-> [jobs[i] EXCEPT !.id = generateJobId(jobs[i])]]
        persistedJobs == loadCurrentJobsStore(file)
        US(j) == isUSOnlyJob(j)
        NonSenior(j) == ~isSeniorJob(j)
        Fresh(j) == ~isJobOlderThan14Days(j, filterNow)
        Stale(j) == isJobOlderThan14Days(j, archiveNow)
    IN  IF nullJob \/ ~persistedJobs.isArray
        THEN {[throws |-> TRUE, store |-> file, currentJobs |-> <<>>, archivedJobs |-> <<>>]}
        ELSE {[throws |-> FALSE,
               store |-> Serialize(SelectSeq(nonSeniorJobs, Stale)),
               currentJobs |-> SelectSeq(nonSeniorJobs, Fresh),
               archivedJobs |-> SelectSeq(nonSeniorJobs, Stale)] :
              nonSeniorJobs \in {SelectSeq(SelectSeq(mergedJobs, US), NonSenior) :
                                 mergedJobs \in {mergeJobs(persistedJobs.items, withIds)}}}

\* processJobs(jobs) on the store file, with new Date() = filterNow while
\* currentJobs is filtered and new Date() = archiveNow while archivedJobs is
\* filtered; the value is the set that holds the one outcome of the call.
\* throws: a null element of jobs (job.job_apply_link) or a
\* loaded store that is no array (persistedJobs.forEach) raises a TypeError
\* before saveCurrentJobsStore is reached.
processJobs(jobs, file, filterNow, archiveNow) ==
    LET nullJob == \E i \in 1..Len(jobs) : jobs[i].isNull
        withIds == [i \in 1..Len(jobs) |-> [jobs[i] EXCEPT !.id = generateJobId(jobs[i])]]
        persistedJobs == loadCurrentJobsStore(file)
        US(j) == isUSOnlyJob(j)
        NonSenior(j) == ~isSeniorJob(j)
        Fresh(j) == ~isJobOlderThan14Days(j, filterNow)
        Stale(j) == isJobOlderThan14Days(j, archiveNow)
    IN  IF nullJob \/ ~persistedJobs.isArray
        THEN {[throws |-> TRUE, store |-> file, currentJobs |-> <<>>, archivedJobs |-> <<>>]}
        ELSE {[throws |-> FALSE,
               store |-> Serialize(SelectSeq(nonSeniorJobs, Fresh)),
               currentJobs |-> SelectSeq(nonSeniorJobs, Fresh),
               archivedJobs |-> SelectSeq(nonSeniorJobs, Stale)] :
              nonSeniorJobs \in {SelectSeq(SelectSeq(mergedJobs, US), NonSenior) :
                                 mergedJobs \in {mergeJobs(persistedJobs.items, withIds)}}}

\* a store record that an earlier version saved although it is senior
StoredSenior == [FreshA2 EXCEPT !.id = <<"a", "c", "m", "e", "-", "s", "e", "n", "i", "o", "r">>]

\* batches and stores of the runs: a fresh job that equals a stored one, a
\* job at the 14-day boundary, a senior and a non-US job, a null element;
\* a store with a repeated id, with a record without id, with a stale and
\* with a senior record
RunBatches ==
    {<<>>, <<FreshA>>, <<FreshC>>, <<FreshA2, FreshB>>, <<FreshC, FreshA>>, <<NullJob>>}
RunStores ==
    {FileOf("missing"), FileOf("corrupt"), FileOf("object"),
     Serialize(<<StoredA, StoredOld>>),
     Serialize(<<StoredA, [StoredA EXCEPT !.job_title = <<"E", "n", "g", "i", "n", "e", "e", "r", " ", "I", "I">>]>>),
     Serialize(<<StoredNoId, StoredSenior, StoredA>>)}

NoRun ==
    [ran |-> FALSE, jobs |-> <<>>, before |-> FileOf("missing"), after |-> FileOf("missing"),
     currentJobs |-> <<>>, archivedJobs |-> <<>>, filterNow |-> 0, archiveNow |-> 0]

RunsIdle ==
    /\ tStore = FileOf("missing") /\ tClock = 0 /\ tTicks = 0 /\ tRuns = 0
    /\ tLast = NoRun /\ tPrev = NoRun /\ tThrown = 0

\* before the first run: any store
RunsInit ==
    /\ tStore \in RunStores
    /\ tClock = StartTime
    /\ tTicks = 0
    /\ tRuns = 0
    /\ tLast = NoRun
    /\ tPrev = NoRun
    /\ tThrown = 0

\* one processJobs(jobs) call that returns; the clock may advance between
\* the two filtering passes
RunProcessJobs ==
    /\ tRuns < MaxPipelineRuns
    /\ \E jobs \in RunBatches, dt \in {0, TickHours} :
          \E r \in processJobs(jobs, tStore, tClock, tClock + dt) :
              /\ ~r.throws
              /\ dt > 0 => tTicks < MaxRunTicks
              /\ tStore' = r.store
              /\ tClock' = tClock + dt
              /\ tTicks' = IF dt > 0 THEN tTicks + 1 ELSE tTicks
              /\ tPrev' = tLast
              /\ tLast' = [ran |-> TRUE, jobs |-> jobs, before |-> tStore, after |-> r.store,
                           currentJobs |-> r.currentJobs, archivedJobs |-> r.archivedJobs,
                           filterNow |-> tClock, archiveNow |-> tClock + dt]
    /\ tRuns' = tRuns + 1
    /\ UNCHANGED tThrown

\* one processJobs(jobs) call that throws: the store is left as it was
RunProcessJobsThrows ==
    /\ tRuns < MaxPipelineRuns
    /\ \E jobs \in RunBatches :
          \E r \in processJobs(jobs, tStore, tClock, tClock) :
              r.throws /\ tStore' = r.store
    /\ tThrown' = tThrown + 1
    /\ tRuns' = tRuns + 1
    /\ UNCHANGED <<tClock, tTicks, tLast, tPrev>>

\* time passes between two runs
ClockAdvances ==
    /\ tTicks < MaxRunTicks
    /\ tClock' = tClock + TickHours
    /\ tTicks' = tTicks + 1
    /\ UNCHANGED <<tStore, tRuns, tLast, tPrev, tThrown>>

----------------------------------------------------------------------------
(* Specifications: each exercises one group of operations, the variables of *)
(* the other groups stay idle                                               *)

\* SpecMerge: mergeJobs on every pair of bounded lists
InitMerge == MergeInit /\ DedupIdle /\ FilterIdle /\ PipeIdle /\ AgeIdle /\ UsageIdle /\ SeenIdle /\ RetryIdle /\ ClassifyIdle /\ JobIdIdle /\ IdentityIdle /\ CompanyIdle /\ LoggerIdle /\ RunsIdle
NextMerge == CallMergeJobs /\ UNCHANGED <<dedupVars, filterVars, pipeVars, ageVars, usageVars, retryVars, classifyVars, jobIdVars, identityVars, companyVars, loggerVars, runsVars>>
SpecMerge == InitMerge /\ [][NextMerge]_vars

\* SpecDedup: filterDuplicates on every bounded list
InitDedup == DedupInit /\ MergeIdle /\ FilterIdle /\ PipeIdle /\ AgeIdle /\ UsageIdle /\ SeenIdle /\ RetryIdle /\ ClassifyIdle /\ JobIdIdle /\ IdentityIdle /\ CompanyIdle /\ LoggerIdle /\ RunsIdle
NextDedup == CallFilterDuplicates /\ UNCHANGED <<mergeVars, filterVars, pipeVars, ageVars, usageVars, retryVars, classifyVars, jobIdVars, identityVars, companyVars, loggerVars, runsVars>>
SpecDedup == InitDedup /\ [][NextDedup]_vars

\* SpecFilters: the senior and the US-only filters on every job of the pool
InitFilters == FilterInit /\ MergeIdle /\ DedupIdle /\ PipeIdle /\ AgeIdle /\ UsageIdle /\ SeenIdle /\ RetryIdle /\ ClassifyIdle /\ JobIdIdle /\ IdentityIdle /\ CompanyIdle /\ LoggerIdle /\ RunsIdle
NextFilters ==
    \/ CallSeniorFilters /\ UNCHANGED <<mergeVars, dedupVars, pipeVars, ageVars, usageVars, retryVars, classifyVars, jobIdVars, identityVars, companyVars, loggerVars, runsVars>>
    \/ CallUSFilters /\ UNCHANGED <<mergeVars, dedupVars, pipeVars, ageVars, usageVars, retryVars, classifyVars, jobIdVars, identityVars, companyVars, loggerVars, runsVars>>
SpecFilters == InitFilters /\ [][NextFilters]_vars

\* Spec: one processJobs run from every store, step by step, with the clock,
\* a reader of the store, failing file-system calls and a stopped process
Init == PipeInit /\ MergeIdle /\ DedupIdle /\ FilterIdle /\ AgeIdle /\ UsageIdle /\ SeenIdle /\ RetryIdle /\ ClassifyIdle /\ JobIdIdle /\ IdentityIdle /\ CompanyIdle /\ LoggerIdle /\ RunsIdle
PipeNext ==
    \/ AssignIds
    \/ SnapshotMkdir
    \/ SnapshotOpen
    \/ SnapshotWrite
    \/ SnapshotRename
    \/ LoadStore
    \/ MergeStep
    \/ FilterUSStep
    \/ FilterSeniorStep
    \/ FilterStaleStep
    \/ SaveOpen
    \/ SaveWrite
    \/ SaveRename
    \/ ArchiveAndReturn
    \/ FsCallThrows
    \/ ProcessStops
    \/ Tick
    \/ ReaderReads
Next == PipeNext /\ UNCHANGED <<mergeVars, dedupVars, filterVars, ageVars, usageVars, retryVars, classifyVars, jobIdVars, identityVars, companyVars, loggerVars, runsVars>>
Spec == Init /\ [][Next]_vars

\* SpecAge: the age filters on every date of the pool, at two clock readings
InitAge == AgeInit /\ MergeIdle /\ DedupIdle /\ FilterIdle /\ PipeIdle /\ UsageIdle /\ SeenIdle /\ RetryIdle /\ ClassifyIdle /\ JobIdIdle /\ IdentityIdle /\ CompanyIdle /\ LoggerIdle /\ RunsIdle
NextAge == CallAgeFilters /\ UNCHANGED <<mergeVars, dedupVars, filterVars, pipeVars, usageVars, retryVars, classifyVars, jobIdVars, identityVars, companyVars, loggerVars, runsVars>>
SpecAge == InitAge /\ [][NextAge]_vars

\* SpecUsage: fetchAllJSearchJobs runs of one day, one after the other, and
\* one saveSeenJobsStore call, with readers of both files
InitUsage == UsageInit /\ SeenInit /\ MergeIdle /\ DedupIdle /\ FilterIdle /\ PipeIdle /\ AgeIdle /\ RetryIdle /\ ClassifyIdle /\ JobIdIdle /\ IdentityIdle /\ CompanyIdle /\ LoggerIdle /\ RunsIdle
seenOnly == <<sFile, sTmp, sSeenJobs, sPc, sReader>>
usageOnly == <<uOption, uHasKey, uFile, uPc, uUsage, uIssued, uRuns, uReader>>
NextUsage ==
    \/ StartFetch /\ UNCHANGED <<seenOnly, mergeVars, dedupVars, filterVars, pipeVars, ageVars, retryVars, classifyVars, jobIdVars, identityVars, companyVars, loggerVars, runsVars>>
    \/ SendRequest /\ UNCHANGED <<seenOnly, mergeVars, dedupVars, filterVars, pipeVars, ageVars, retryVars, classifyVars, jobIdVars, identityVars, companyVars, loggerVars, runsVars>>
    \/ ReceiveResponse /\ UNCHANGED <<seenOnly, mergeVars, dedupVars, filterVars, pipeVars, ageVars, retryVars, classifyVars, jobIdVars, identityVars, companyVars, loggerVars, runsVars>>
    \/ UsageSaveOpen /\ UNCHANGED <<seenOnly, mergeVars, dedupVars, filterVars, pipeVars, ageVars, retryVars, classifyVars, jobIdVars, identityVars, companyVars, loggerVars, runsVars>>
    \/ UsageSaveWrite /\ UNCHANGED <<seenOnly, mergeVars, dedupVars, filterVars, pipeVars, ageVars, retryVars, classifyVars, jobIdVars, identityVars, companyVars, loggerVars, runsVars>>
    \/ UsageSaveThrows /\ UNCHANGED <<seenOnly, mergeVars, dedupVars, filterVars, pipeVars, ageVars, retryVars, classifyVars, jobIdVars, identityVars, companyVars, loggerVars, runsVars>>
    \/ FetchStops /\ UNCHANGED <<seenOnly, mergeVars, dedupVars, filterVars, pipeVars, ageVars, retryVars, classifyVars, jobIdVars, identityVars, companyVars, loggerVars, runsVars>>
    \/ UsageReaderReads /\ UNCHANGED <<seenOnly, mergeVars, dedupVars, filterVars, pipeVars, ageVars, retryVars, classifyVars, jobIdVars, identityVars, companyVars, loggerVars, runsVars>>
    \/ SeenSaveOpen /\ UNCHANGED <<usageOnly, mergeVars, dedupVars, filterVars, pipeVars, ageVars, retryVars, classifyVars, jobIdVars, identityVars, companyVars, loggerVars, runsVars>>
    \/ SeenSaveWrite /\ UNCHANGED <<usageOnly, mergeVars, dedupVars, filterVars, pipeVars, ageVars, retryVars, classifyVars, jobIdVars, identityVars, companyVars, loggerVars, runsVars>>
    \/ SeenSaveRename /\ UNCHANGED <<usageOnly, mergeVars, dedupVars, filterVars, pipeVars, ageVars, retryVars, classifyVars, jobIdVars, identityVars, companyVars, loggerVars, runsVars>>
    \/ SeenSaveEnds /\ UNCHANGED <<usageOnly, mergeVars, dedupVars, filterVars, pipeVars, ageVars, retryVars, classifyVars, jobIdVars, identityVars, companyVars, loggerVars, runsVars>>
    \/ SeenReaderReads /\ UNCHANGED <<usageOnly, mergeVars, dedupVars, filterVars, pipeVars, ageVars, retryVars, classifyVars, jobIdVars, identityVars, companyVars, loggerVars, runsVars>>
SpecUsage == InitUsage /\ [][NextUsage]_vars

\* SpecRetry: one withRetry call for every configuration of the pool and
\* every sequence of outcomes of fn
InitRetry == RetryInit /\ MergeIdle /\ DedupIdle /\ FilterIdle /\ PipeIdle /\ AgeIdle /\ UsageIdle /\ SeenIdle /\ ClassifyIdle /\ JobIdIdle /\ IdentityIdle /\ CompanyIdle /\ LoggerIdle /\ RunsIdle
NextRetry ==
    \/ EnterLoop /\ UNCHANGED <<mergeVars, dedupVars, filterVars, pipeVars, ageVars, usageVars, classifyVars, jobIdVars, identityVars, companyVars, loggerVars, runsVars>>
    \/ FnResolves /\ UNCHANGED <<mergeVars, dedupVars, filterVars, pipeVars, ageVars, usageVars, classifyVars, jobIdVars, identityVars, companyVars, loggerVars, runsVars>>
    \/ FnRejects /\ UNCHANGED <<mergeVars, dedupVars, filterVars, pipeVars, ageVars, usageVars, classifyVars, jobIdVars, identityVars, companyVars, loggerVars, runsVars>>
    \/ WaitBeforeRetry /\ UNCHANGED <<mergeVars, dedupVars, filterVars, pipeVars, ageVars, usageVars, classifyVars, jobIdVars, identityVars, companyVars, loggerVars, runsVars>>
SpecRetry == InitRetry /\ [][NextRetry]_vars

\* SpecClassify: getJobCategory and getExperienceLevel on every title of the
\* pool with every supplied table
InitClassify == ClassifyInit /\ MergeIdle /\ DedupIdle /\ FilterIdle /\ PipeIdle /\ AgeIdle /\ UsageIdle /\ SeenIdle /\ RetryIdle /\ JobIdIdle /\ IdentityIdle /\ CompanyIdle /\ LoggerIdle /\ RunsIdle
NextClassify ==
    \/ CallGetJobCategory /\ UNCHANGED <<mergeVars, dedupVars, filterVars, pipeVars, ageVars, usageVars, retryVars, jobIdVars, identityVars, companyVars, loggerVars, runsVars>>
    \/ CallGetExperienceLevel /\ UNCHANGED <<mergeVars, dedupVars, filterVars, pipeVars, ageVars, usageVars, retryVars, jobIdVars, identityVars, companyVars, loggerVars, runsVars>>
SpecClassify == InitClassify /\ [][NextClassify]_vars

\* SpecJobId: the id generators on every pair of jobs built from the URL pool
InitJobId == JobIdInit /\ MergeIdle /\ DedupIdle /\ FilterIdle /\ PipeIdle /\ AgeIdle /\ UsageIdle /\ SeenIdle /\ RetryIdle /\ ClassifyIdle /\ IdentityIdle /\ CompanyIdle /\ LoggerIdle /\ RunsIdle
NextJobId == CallGenerateJobId /\ UNCHANGED <<mergeVars, dedupVars, filterVars, pipeVars, ageVars, usageVars, retryVars, classifyVars, identityVars, companyVars, loggerVars, runsVars>>
SpecJobId == InitJobId /\ [][NextJobId]_vars

\* SpecIdentity: the fingerprint functions on "Senior X" and "X II" for every
\* title, company and location of the pool, and every identity function on
\* null, undefined and job objects with fields missing
InitIdentity == IdentityInit /\ NullCallInit /\ MergeIdle /\ DedupIdle /\ FilterIdle /\ PipeIdle /\ AgeIdle /\ UsageIdle /\ SeenIdle /\ RetryIdle /\ ClassifyIdle /\ JobIdIdle /\ CompanyIdle /\ LoggerIdle /\ RunsIdle
NextIdentity ==
    \/ CallGenerateJobFingerprint /\ UNCHANGED <<mergeVars, dedupVars, filterVars, pipeVars, ageVars, usageVars, retryVars, classifyVars, jobIdVars, companyVars, loggerVars, runsVars>>
    \/ CallIdentityFunction /\ UNCHANGED <<mergeVars, dedupVars, filterVars, pipeVars, ageVars, usageVars, retryVars, classifyVars, jobIdVars, companyVars, loggerVars, runsVars>>
SpecIdentity == InitIdentity /\ [][NextIdentity]_vars

\* SpecCompany: initCompanyDatabase calls after the module is loaded, and a
\* consumer reading the exported database
InitCompany == CompanyInit /\ MergeIdle /\ DedupIdle /\ FilterIdle /\ PipeIdle /\ AgeIdle /\ UsageIdle /\ SeenIdle /\ RetryIdle /\ ClassifyIdle /\ JobIdIdle /\ IdentityIdle /\ LoggerIdle /\ RunsIdle
NextCompany ==
    \/ CallInitCompanyDatabase /\ UNCHANGED <<mergeVars, dedupVars, filterVars, pipeVars, ageVars, usageVars, retryVars, classifyVars, jobIdVars, identityVars, loggerVars, runsVars>>
    \/ ReadCompanyExports /\ UNCHANGED <<mergeVars, dedupVars, filterVars, pipeVars, ageVars, usageVars, retryVars, classifyVars, jobIdVars, identityVars, loggerVars, runsVars>>
SpecCompany == InitCompany /\ [][NextCompany]_vars

\* SpecLogger: setLevel and the log functions, on the logger and on a child
InitLogger == LoggerInit /\ MergeIdle /\ DedupIdle /\ FilterIdle /\ PipeIdle /\ AgeIdle /\ UsageIdle /\ SeenIdle /\ RetryIdle /\ ClassifyIdle /\ JobIdIdle /\ IdentityIdle /\ CompanyIdle /\ RunsIdle
NextLogger ==
    \/ CallSetLevel /\ UNCHANGED <<mergeVars, dedupVars, filterVars, pipeVars, ageVars, usageVars, retryVars, classifyVars, jobIdVars, identityVars, companyVars, runsVars>>
    \/ CallLogFunction /\ UNCHANGED <<mergeVars, dedupVars, filterVars, pipeVars, ageVars, usageVars, retryVars, classifyVars, jobIdVars, identityVars, companyVars, runsVars>>
SpecLogger == InitLogger /\ [][NextLogger]_vars

\* SpecRuns: processJobs runs that follow one another on one store, each
\* with its own batch, the clock advancing during and between the runs
InitRuns == RunsInit /\ MergeIdle /\ DedupIdle /\ FilterIdle /\ PipeIdle /\ AgeIdle /\ UsageIdle /\ SeenIdle /\ RetryIdle /\ ClassifyIdle /\ JobIdIdle /\ IdentityIdle /\ CompanyIdle /\ LoggerIdle
NextRuns ==
    \/ RunProcessJobs /\ UNCHANGED <<mergeVars, dedupVars, filterVars, pipeVars, ageVars, usageVars, retryVars, classifyVars, jobIdVars, identityVars, companyVars, loggerVars>>
    \/ RunProcessJobsThrows /\ UNCHANGED <<mergeVars, dedupVars, filterVars, pipeVars, ageVars, usageVars, retryVars, classifyVars, jobIdVars, identityVars, companyVars, loggerVars>>
    \/ ClockAdvances /\ UNCHANGED <<mergeVars, dedupVars, filterVars, pipeVars, ageVars, usageVars, retryVars, classifyVars, jobIdVars, identityVars, companyVars, loggerVars>>
SpecRuns == InitRuns /\ [][NextRuns]_vars

----------------------------------------------------------------------------
(* Claims about mergeJobs *)

IdsOf(jobs) == {jobs[i].id : i \in 1..Len(jobs)} \ {EmptyStr}

LastWithId(jobs, id) ==
    jobs[CHOOSE i \in 1..Len(jobs) :
            /\ jobs[i].id = id
            /\ \A j \in (i+1)..Len(jobs) : jobs[j].id # id]

\* C1: for every non-empty id carried by a record of fresh, the result of
\* mergeJobs(persisted, fresh) contains the fresh record for that id (the
\* last one in fresh when several share the id), and every result record
\* with that id is that fresh record: no persisted version survives.
C1_FreshWins ==
    mPc = "returned" =>
        \A id \in IdsOf(mFresh) :
            /\ \E k \in 1..Len(mResult) : mResult[k] = LastWithId(mFresh, id)
            /\ \A k \in 1..Len(mResult) :
                   mResult[k].id = id => mResult[k] = LastWithId(mFresh, id)

\* a persisted record and two fresh records share an id, all three differ or
\* the fresh ones differ from the persisted one, and the merge has returned
C1_Witness ==
    /\ mPc = "returned"
    /\ \E p \in 1..Len(mPersisted), f \in 1..Len(mFresh) :
          /\ mPersisted[p].id = mFresh[f].id
          /\ mPersisted[p].id # EmptyStr
          /\ mPersisted[p].ver # LastWithId(mFresh, mFresh[f].id).ver
    /\ \E f, g \in 1..Len(mFresh) :
          /\ f < g
          /\ mFresh[f].id = mFresh[g].id
          /\ mFresh[f].id # EmptyStr
          /\ mFresh[f].ver # mFresh[g].ver

\* C2: the result of mergeJobs holds exactly one record for each distinct
\* non-empty id of persisted or fresh and no record without an id, so its
\* length is the number of distinct ids of the union; a record without an
\* id is left out and the call still returns.
C2_OnePerId ==
    mPc = "returned" =>
        /\ IdsOf(mResult) = IdsOf(mPersisted) \cup IdsOf(mFresh)
        /\ \A k \in 1..Len(mResult) : mResult[k].id # EmptyStr
        /\ \A j, k \in 1..Len(mResult) : mResult[j].id = mResult[k].id => j = k
        /\ Len(mResult) = Cardinality(IdsOf(mPersisted) \cup IdsOf(mFresh))

\* the inputs share an id, hold a record without an id, and the result is
\* shorter than the two inputs together
C2_Witness ==
    /\ mPc = "returned"
    /\ IdsOf(mPersisted) \cap IdsOf(mFresh) # {}
    /\ \E i \in 1..Len(mPersisted) : mPersisted[i].id = EmptyStr
    /\ \E i \in 1..Len(mFresh) : mFresh[i].id = EmptyStr
    /\ Len(mResult) = 1

----------------------------------------------------------------------------
(* Claims about filterDuplicates *)

SameIdentity(a, b) == a.id = b.id \/ a.fingerprint = b.fingerprint

KeptSet == Range(dUnique)

\* C3 as stated: the returned jobs are, in input order, exactly the jobs for
\* which no earlier job of the input has the same id or the same fingerprint.
C3_NoEarlierInputJob ==
    dPc = "returned" /\ dIsArray =>
        /\ \A a, b \in 1..Len(dUnique) : a < b => dUnique[a] < dUnique[b]
        /\ \A i \in 1..Len(dJobs) :
               i \in KeptSet <=> ~\E j \in 1..(i - 1) : SameIdentity(dJobs[j], dJobs[i])

\* C3 amended: the returned jobs are, in input order, exactly the jobs for
\* which no earlier RETURNED job has the same id or the same fingerprint; a
\* job that was itself dropped does not make a later job a duplicate.
C3_NoEarlierKeptJob ==
    dPc = "returned" /\ dIsArray =>
        /\ \A a, b \in 1..Len(dUnique) : a < b => dUnique[a] < dUnique[b]
        /\ KeptSet \subseteq 1..Len(dJobs)
        /\ \A i \in 1..Len(dJobs) :
               i \in KeptSet <=>
                   ~\E j \in KeptSet : j < i /\ SameIdentity(dJobs[j], dJobs[i])

\* a job is dropped for its fingerprint alone (an earlier returned job has
\* the same fingerprint and another id), and a later job is returned although
\* an earlier dropped job has its fingerprint
C3_Witness ==
    /\ dPc = "returned"
    /\ \E i \in 1..Len(dJobs) :
          /\ i \notin KeptSet
          /\ \E j \in KeptSet : j < i /\ dJobs[j].fingerprint = dJobs[i].fingerprint
          /\ \A j \in 1..(i - 1) : dJobs[j].id # dJobs[i].id
    /\ \E i \in KeptSet, j \in 1..Len(dJobs) :
          j < i /\ j \notin KeptSet /\ dJobs[j].fingerprint = dJobs[i].fingerprint

----------------------------------------------------------------------------
(* Claims about the senior filter *)

SeniorText(job) == ToLower(OrEmpty(job.job_title) \o <<" ">> \o OrEmpty(job.job_description))

ManagerialWords == <<
    <<"m", "a", "n", "a", "g", "e", "r">>,
    <<"d", "i", "r", "e", "c", "t", "o", "r">>,
    <<"v", "p">>,
    <<"h", "e", "a", "d", " ", "o", "f">>>>

----------------------------------------------------------------------------
(* Claims about the US-only filter *)

NoLocation(job) ==
    /\ OrEmpty(job.job_country) = EmptyStr
    /\ OrEmpty(job.job_state) = EmptyStr
    /\ OrEmpty(job.job_city) = EmptyStr

\* C9: every isUSOnlyJob implementation returns true for a job whose country,
\* state and city are all empty or missing.
C9_EmptyLocationIncluded ==
    cPc = "returned" /\ cVerdict.fn = "us" /\ NoLocation(cJob) =>
        cVerdict.processor /\ cVerdict.utils

\* the decision order of the location filter as the claim gives it
FirstRuleVerdict(job) ==
    LET country == Trim(ToLower(OrEmpty(job.job_country)))
        state == Trim(ToLower(OrEmpty(job.job_state)))
        city == Trim(ToLower(OrEmpty(job.job_city)))
    IN  IF \E i \in 1..Len(utilsUSIndicators) : country = utilsUSIndicators[i] THEN TRUE
        ELSE IF \E i \in 1..Len(nonUSCountries) : country = nonUSCountries[i] THEN FALSE
        ELSE IF \E i \in 1..Len(usStateCodes) : state = usStateCodes[i] THEN TRUE
        ELSE IF AnyIncluded(city, nonUSCities) \/ AnyIncluded(state, nonUSCities) THEN FALSE
        ELSE IF Includes(city, <<"r", "e", "m", "o", "t", "e">>) \/ Includes(state, <<"r", "e", "m", "o", "t", "e">>) THEN TRUE
        ELSE TRUE

\* C10: isUSOnlyJob returns the verdict of the first rule that applies, in
\* the order US country, non-US country, US state code, non-US city, remote,
\* default true; in particular country "Canada" is classified non-US.
C10_FirstRuleDecides ==
    cPc = "returned" /\ cVerdict.fn = "us" =>
        /\ cVerdict.processor = FirstRuleVerdict(cJob)
        /\ cVerdict.utils = FirstRuleVerdict(cJob)

----------------------------------------------------------------------------
(* Claims about the store files and the pipeline driver (Spec) *)

Saved == "save" \in Range(trace)

\* C4: during and after the save, also when the process stops between two
\* file-system steps, current_jobs.json holds, and a reader of it gets, either
\* the complete contents from before the run or the complete serialization of
\* the jobs being saved, and never a half-written file; the new contents
\* appear only with the rename
C4_ReaderSeesWholeFile ==
    /\ fsCur = (IF Saved THEN Serialize(runCurrent) ELSE storeAtStart)
    /\ fsCur.kind # "partial"
    /\ readerSaw \in ({NotRead, storeAtStart}
                        \cup (IF Saved THEN {Serialize(runCurrent)} ELSE {}))
    /\ readerSaw.kind # "partial"

\* the process was stopped inside the save with the temp file half-written,
\* and the reader has read the store, which still holds a job array that
\* differs from the one being saved
C4_Witness ==
    /\ pc = "stopped"
    /\ "filterStale" \in Range(trace)
    /\ fsCurTmp.kind = "partial"
    /\ readerSaw = storeAtStart
    /\ storeAtStart.kind = "array"
    /\ storeAtStart # Serialize(runCurrent)

FixedOrder ==
    <<"assignIds", "writeSnapshot", "load", "merge", "filterUS", "filterSenior",
      "filterStale", "save">>

IsPrefix(s, t) == Len(s) <= Len(t) /\ \A i \in 1..Len(s) : s[i] = t[i]

\* C5: the steps a run has completed are always an initial part of the fixed
\* order assign ids, write snapshot, load, merge, filter US, filter senior,
\* filter stale, save; a run that returns has completed all of them; the
\* store is loaded only once the snapshot is in new_jobs.json, and the store
\* differs from its contents at the start only once all three filters ran
C5_FixedLinearOrder ==
    /\ IsPrefix(trace, FixedOrder)
    /\ pc = "done" => trace = FixedOrder
    /\ "load" \in Range(trace) => fsNew = Serialize(runJobs)
    /\ fsCur # storeAtStart => /\ "filterStale" \in Range(trace)
                               /\ fsCur = Serialize(runCurrent)

\* a run returned after all eight steps and the store was replaced by a
\* non-empty job array
C5_Witness ==
    /\ pc = "done"
    /\ trace = FixedOrder
    /\ fsCur # storeAtStart
    /\ Len(fsCur.jobs) > 0

\* C6: a run that ended with an exception, or was stopped, before its final
\* save completed leaves current_jobs.json as it was when the run started
C6_FailureLeavesStore ==
    (pc \in {"failed", "stopped"} /\ ~Saved) => fsCur = storeAtStart

\* the run failed inside the save after the temp file was begun, holding a
\* result that differs from the stored job array
C6_Witness ==
    /\ pc = "failed"
    /\ "filterStale" \in Range(trace)
    /\ fsNew.kind = "array"
    /\ fsCurTmp.kind = "partial"
    /\ storeAtStart.kind = "array"
    /\ Len(storeAtStart.jobs) > 0
    /\ Serialize(runCurrent) # storeAtStart

\* C7: loadCurrentJobsStore returns a list, the stored array when
\* current_jobs.json holds a JSON array and the empty list otherwise, and the
\* merge step that follows does not fail on it
C7_LoadReturnsList ==
    /\ "load" \in Range(trace) =>
          /\ runPersisted.isArray
          /\ runPersisted.items =
                (IF storeAtStart.kind = "array" THEN storeAtStart.jobs ELSE <<>>)
    /\ (pc = "failed" /\ "load" \in Range(trace)) => "merge" \in Range(trace)

----------------------------------------------------------------------------
(* Claims about the age filters (SpecAge) *)

AgeUnit == DropWhileIn(aInput.text, DigitChars)
AgeDigits == SubSeq(aInput.text, 1, Len(aInput.text) - Len(AgeUnit))

\* C11: for a relative age string <n><unit>, isJobOlderThanWeek returns
\* true exactly when n >= 336 for h, n >= 14 for d, n >= 2 for w, and
\* returns true for every n when the unit is the month unit, mo or m
C11_RelativeThresholds ==
    (aPc = "done" /\ aInput.kind = "text" /\ AgeDigits # <<>>) =>
        /\ AgeUnit = <<"h">> => (aVerdict.week <=> ParseInt(AgeDigits) >= 336)
        /\ AgeUnit = <<"d">> => (aVerdict.week <=> ParseInt(AgeDigits) >= 14)
        /\ AgeUnit = <<"w">> => (aVerdict.week <=> ParseInt(AgeDigits) >= 2)
        /\ AgeUnit \in {<<"m">>, <<"m", "o">>} => aVerdict.week

MissingOrUnparseable ==
    aInput.kind = "missing" \/ (aInput.kind = "text" /\ AgeDigits = <<>>)

\* C12: for an absolute timestamp both age filters return true exactly when
\* the whole days between the timestamp and now are at least 14; for a
\* missing value, or a value that is neither a relative age string nor a
\* parseable date, both return false
C12_AbsoluteAndFailOpen ==
    aPc = "done" =>
        /\ aInput.kind = "iso" =>
              /\ aVerdict.week <=> ((aNow - aInput.at) \div 24 >= 14)
              /\ aVerdict.pipeline <=> ((aNow - aInput.at) \div 24 >= 14)
        /\ MissingOrUnparseable => (~aVerdict.week /\ ~aVerdict.pipeline)

\* a timestamp exactly 14 days old was judged stale by both filters
C12_Witness ==
    /\ aPc = "done"
    /\ aInput.kind = "iso"
    /\ aNow - aInput.at = 14 * 24
    /\ aVerdict.week /\ aVerdict.pipeline

----------------------------------------------------------------------------
(* Claims about the usage-counter and seen-IDs files (SpecUsage) *)

\* C13: over the runs of one day, none overlapping another, the number of
\* requests sent to the API never exceeds maxRequestsPerDay, and between two
\* runs every request sent today is counted in the usage file
C13_QuotaNeverExceeded ==
    /\ uIssued <= maxRequestsPerDay(uOption)
    /\ (uPc = "idle" /\ uIssued > 0) => (uFile.kind = "usage" /\ uFile.date = "today"
                                            /\ uFile.requests = uIssued)

\* C14: a reader of the usage-counter file or of the seen-IDs file never
\* gets a half-written file, and neither file is ever half-written
C14_NoHalfWrittenFile ==
    /\ uFile.kind # "partial" /\ uReader.kind # "partial"
    /\ sFile.kind # "partial" /\ sReader.kind # "partial"

----------------------------------------------------------------------------
(* Claims about withRetry (SpecRetry) *)

\* C15: withRetry invokes fn at most maxAttempts times; when it returns, the
\* last invocation succeeded; when it throws, it throws the error of the last
\* invocation of fn
C15_BoundedAttempts ==
    /\ rCalls <= rConfig.maxAttempts
    /\ rPc = "returned" => rLast.ok
    /\ rPc = "threw" => (rCalls >= 1 /\ ~rLast.ok /\ rThrown = ThrownError(rLast))

\* the code and the message of error match none of the configured
\* retryableErrors
MatchesNoConfigured(error, retryableErrors) ==
    \A i \in 1..Len(retryableErrors) :
        /\ error.code # retryableErrors[i]
        /\ error.message = JsUndefined \/ ~Includes(error.message, retryableErrors[i])

\* C16: after fn failed with an error whose code and message match none of
\* the configured retryableErrors, withRetry has thrown that same error: it
\* neither waits nor invokes fn again
C16_NonRetryablePropagates ==
    (rCalls >= 1 /\ ~rLast.ok /\ MatchesNoConfigured(rLast, rConfig.retryableErrors)) =>
        (rPc = "threw" /\ rThrown = ThrownError(rLast))

RECURSIVE Power(_, _)
Power(b, e) == IF e = 0 THEN 1 ELSE b * Power(b, e - 1)

\* C17: the wait before the k-th retry is initialDelayMs *
\* backoffMultiplier^(k-1) capped at maxDelayMs, and no wait exceeds maxDelayMs
C17_BackoffCapped ==
    \A k \in 1..Len(rWaits) :
        /\ rWaits[k] = Min(rConfig.initialDelayMs * Power(rConfig.backoffMultiplier, k - 1),
                           rConfig.maxDelayMs)
        /\ rWaits[k] <= rConfig.maxDelayMs

----------------------------------------------------------------------------
(* Claims about the classifiers with a supplied table (SpecClassify) *)

KText == ClassifierText(kTitle, kDescription)

\* the positions of table whose label has a keyword occurring in text, and
\* the smallest of them (0 when there is none)
MatchingEntries(table, text) ==
    {i \in 1..Len(table) : \E k \in 1..Len(table[i].keywords) :
                                Includes(text, table[i].keywords[k])}
EarliestMatch(table, text) ==
    IF MatchingEntries(table, text) = {} THEN 0
    ELSE CHOOSE i \in MatchingEntries(table, text) :
            \A j \in MatchingEntries(table, text) : i <= j

\* the table handed to the function that was called
KTable == IF kVerdict.fn = "category" THEN kKeywords ELSE kLevels

\* the three labels getExperienceLevel looks up, in the order of its tests
LevelPriority(levels) ==
    <<[label |-> "Senior", keywords |-> KeywordsOf(levels, "Senior")],
      [label |-> "Entry-Level", keywords |-> KeywordsOf(levels, "Entry-Level")],
      [label |-> "Mid-Level", keywords |-> KeywordsOf(levels, "Mid-Level")]>>

\* C18 as stated: given a supplied table with a keyword in the text, both
\* classifiers return the first label in table order that has a keyword in
\* the text
C18_FirstLabelInTableOrder ==
    (kPc = "done" /\ KTable.supplied /\ EarliestMatch(KTable.table, KText) # 0) =>
        kVerdict.label = KTable.table[EarliestMatch(KTable.table, KText)].label

\* C18 amended: getJobCategory returns the first label in table order that
\* has a keyword in the text; getExperienceLevel returns the first of Senior,
\* Entry-Level, Mid-Level that has a keyword in the text, whatever the order
\* of the supplied table
C18_FirstLabelAmended ==
    /\ (kPc = "done" /\ kVerdict.fn = "category" /\ kKeywords.supplied
            /\ EarliestMatch(kKeywords.table, KText) # 0) =>
          kVerdict.label = kKeywords.table[EarliestMatch(kKeywords.table, KText)].label
    /\ (kPc = "done" /\ kVerdict.fn = "level" /\ kLevels.supplied
            /\ EarliestMatch(LevelPriority(kLevels.table), KText) # 0) =>
          kVerdict.label =
              LevelPriority(kLevels.table)[EarliestMatch(LevelPriority(kLevels.table), KText)].label

\* getJobCategory was given a table of which two labels have a keyword in
\* the text, and returned the earlier one
C18_Witness ==
    /\ kPc = "done" /\ kVerdict.fn = "category" /\ kKeywords.supplied
    /\ EarliestMatch(kKeywords.table, KText) # 0
    /\ Cardinality(MatchingEntries(kKeywords.table, KText)) >= 2
    /\ kVerdict.label = kKeywords.table[EarliestMatch(kKeywords.table, KText)].label

\* C19: with a supplied table of which no keyword is in the text the default
\* label is returned (Software Engineering, Entry-Level), and the tables of
\* config/categories.js give the same label as no table
C19_SuppliedTableAlone ==
    /\ (kPc = "done" /\ KTable.supplied /\ EarliestMatch(KTable.table, KText) = 0) =>
          kVerdict.label = (IF kVerdict.fn = "category" THEN "Software Engineering"
                            ELSE "Entry-Level")
    /\ (kPc = "done" /\ KTable \in {Supplied(ConfigKeywords), Supplied(ConfigExperienceLevels)}) =>
          kVerdict.label = kVerdict.unconfigured

----------------------------------------------------------------------------
(* Claims about the id generators (SpecJobId) *)

\* both apply URLs have a scheme, the same host, and the same path up to one
\* trailing slash
SameHostAndPath ==
    /\ jPartsA.scheme # EmptyStr /\ jPartsB.scheme # EmptyStr
    /\ ToLower(jPartsA.host) = ToLower(jPartsB.host)
    /\ \/ jPartsA.path = jPartsB.path
       \/ jPartsA.path = jPartsB.path \o <<"/">>
       \/ jPartsB.path = jPartsA.path \o <<"/">>

\* C20: two jobs whose apply URLs parse and have the same host and the same
\* path up to one trailing slash get the same id, from generateJobId of the
\* pipeline (URL in job_apply_link) and from generateJobIdFromUrl (URL in
\* url or job_apply_link), whatever their queries, fragments and other fields
C20_SameUrlSameId ==
    (jPc = "done" /\ SameHostAndPath) =>
        /\ jIds[1].utils = jIds[2].utils
        /\ jCarrier = "job_apply_link" => jIds[1].processor = jIds[2].processor

\* two jobs with the same host and path but different queries, a trailing
\* slash on one side only and different titles got one id
C20_Witness ==
    /\ jPc = "done" /\ SameHostAndPath
    /\ jCarrier = "job_apply_link"
    /\ jPartsA.suffix # jPartsB.suffix /\ jPartsA.suffix # EmptyStr
    /\ jPartsA.path = jPartsB.path \o <<"/">> /\ Len(jPartsB.path) > 1
    /\ jOther[1] # jOther[2]
    /\ jIds[1].processor = jIds[2].processor
    /\ jIds[1].processor = <<"a", "c", "m", "e", "-", "c", "o", "m", "-", "j", "o", "b", "s", "-", "4", "2">>

\* an id in the documented shape: lower-case word characters and hyphens
\* only, no two hyphens in a row, no hyphen at either end
WellFormedId(id) ==
    /\ \A i \in 1..Len(id) : id[i] \in (WordChars \ Range(UpperLetters)) \cup {"-"}
    /\ \A i \in 1..(Len(id) - 1) : ~(id[i] = "-" /\ id[i + 1] = "-")
    /\ id # EmptyStr => (id[1] # "-" /\ id[Len(id)] # "-")

\* C21: every id returned by generateJobId of the pipeline and by
\* generateJobIdFromUrl (URL branch and generateEnhancedId fallback) is
\* lower-case, made of word characters and single hyphens, with no hyphen at
\* either end, also when company, title or location is missing
C21_IdsWellFormed ==
    jPc = "done" =>
        \A i \in 1..2 : WellFormedId(jIds[i].processor) /\ WellFormedId(jIds[i].utils)

----------------------------------------------------------------------------
(* Claims about the fingerprint functions (SpecIdentity) *)

\* C22: with equal company and location, the job titled "Senior X" and the
\* job titled "X II" get the same fingerprint from generateJobFingerprint of
\* lib/job-processor.js and from generateJobFingerprint of utils
C22_SeniorEqualsSecond ==
    pPc = "done" =>
        /\ pPrints.processor[1] = pPrints.processor[2]
        /\ pPrints.utils[1] = pPrints.utils[2]

\* C23: every identity function called with null or undefined fails with
\* the error "Job object is required"; called with a job object, whatever
\* fields are missing, it returns a value
C23_NullJobExplicitError ==
    nPc = "done" =>
        IF nJob.given = "object" THEN ~nOutcome.threw
        ELSE nOutcome.threw /\ nOutcome.error = <<"J", "o", "b", " ", "o", "b", "j", "e", "c", "t", " ", "i", "s", " ", "r", "e", "q", "u", "i", "r", "e", "d">>

----------------------------------------------------------------------------
(* Claims about the company database (SpecCompany) *)

\* the lower-cased name and the lower-cased api_names of a company
CompanyKeys(company) ==
    {ToLower(company.name)} \cup {ToLower(company.api_names[i]) : i \in 1..Len(company.api_names)}

\* all is one entry per company of data, byName maps every key of every
\* company of data to that company and has no other key
HoldsCompaniesOf(all, byName, data) ==
    LET expected == Flat(data.categories)
    IN  /\ all = expected
        /\ DOMAIN byName = UNION {CompanyKeys(expected[i]) : i \in 1..Len(expected)}
        /\ \A i \in 1..Len(expected) : \A k \in CompanyKeys(expected[i]) : byName[k] = expected[i]

\* C24: once initCompanyDatabase has been called with non-null data, the
\* ALL_COMPANIES and COMPANY_BY_NAME that the module's exports give hold
\* exactly the companies of the last non-null data
C24_ExportsHoldLastData ==
    ~qLast.isNull =>
        HoldsCompaniesOf(qHeap[qExports.ALL_COMPANIES], qHeap[qExports.COMPANY_BY_NAME], qLast)

----------------------------------------------------------------------------
(* Claims about the logger (SpecLogger) *)

\* C25: a call of fatal, on the logger or on a child, writes one [FATAL]
\* line and ends the process with exit code 1; a call of any other log
\* function leaves the process running
C25_FatalExits ==
    [][(lCalls' = lCalls + 1) =>
          IF lLast'.fn = "fatal"
          THEN /\ Len(lLines') = Len(lLines) + 1
               /\ lLines'[Len(lLines')].level = "FATAL"
               /\ lExit' = "exit(1)"
          ELSE lExit' = lExit]_vars

----------------------------------------------------------------------------
(* Claims about the lists processJobs returns (Spec) *)

\* C27: when processJobs returns, every job that passed the US-only and
\* senior filters is in exactly one of currentJobs and archivedJobs,
\* whatever the clock did during the run
C27_CurrentArchivedPartition ==
    pc = "done" =>
        \A j \in Range(runNonSenior) :
            (j \in Range(runCurrent)) # (j \in Range(runArchived))

----------------------------------------------------------------------------
(* Claims about processJobs runs that follow one another *)

\* C26: after every completed processJobs run, from any store (also one
\* that holds an id twice, a record without id, a senior or a stale
\* record), the saved store is an array in which no two records have the
\* same id, every record has a non-empty id, and every record passed the
\* US-only filter, the senior filter and the 14-day filter at the time the
\* run that saved it filtered currentJobs.
C26_SavedStoreClean ==
    tLast.ran =>
        /\ tStore = tLast.after
        /\ tStore.kind = "array"
        /\ \A i, k \in 1..Len(tStore.jobs) : tStore.jobs[i].id = tStore.jobs[k].id => i = k
        /\ \A i \in 1..Len(tStore.jobs) :
              /\ Truthy(tStore.jobs[i].id)
              /\ isUSOnlyJob(tStore.jobs[i])
              /\ ~isSeniorJob(tStore.jobs[i])
              /\ ~isJobOlderThan14Days(tStore.jobs[i], tLast.filterNow)

\* a first run on a store that holds one id twice and a second run on a
\* store with a record without id and a senior record both saved records
C26_Witness ==
    /\ tLast.ran /\ tPrev.ran
    /\ Len(tPrev.after.jobs) > 0 /\ Len(tStore.jobs) > 0
    /\ tPrev.before.kind = "array"
    /\ \E i, k \in 1..Len(tPrev.before.jobs) :
          i # k /\ tPrev.before.jobs[i].id = tPrev.before.jobs[k].id

\* the ids processJobs gives a batch
BatchIds(jobs) == {generateJobId(jobs[i]) : i \in 1..Len(jobs)}

\* the records of archivedJobs that the run took from the store
ArchivedFromStore(run) ==
    {j \in Range(run.archivedJobs) :
        j.id \in IdsOf(run.before.jobs) /\ j.id \notin BatchIds(run.jobs)}

\* C28: a persisted job that a completed run reports in archivedJobs is not
\* in the store that run saved, and the next completed run has it neither
\* in currentJobs nor in archivedJobs unless its batch holds the id again.
C28_ArchivedOnceAndRemoved ==
    tLast.ran =>
        /\ \A j \in ArchivedFromStore(tLast) : j.id \notin IdsOf(tLast.after.jobs)
        /\ tPrev.ran =>
              \A j \in ArchivedFromStore(tPrev) :
                  j.id \in IdsOf(tLast.currentJobs) \cup IdsOf(tLast.archivedJobs)
                      => j.id \in BatchIds(tLast.jobs)

\* the records the later of two runs handles: those the earlier run saved
\* and those of the batch
HandledRecords(prev, run) ==
    Range(prev.after.jobs)
        \cup {[run.jobs[i] EXCEPT !.id = generateJobId(run.jobs[i])] : i \in 1..Len(run.jobs)}

\* no job is on one side of the 14-day boundary in the earlier run and on
\* the other side in the later run
NoBoundaryCrossing(prev, run) ==
    \A j \in HandledRecords(prev, run) :
        /\ isJobOlderThan14Days(j, prev.filterNow) = isJobOlderThan14Days(j, run.filterNow)
        /\ isJobOlderThan14Days(j, prev.filterNow) = isJobOlderThan14Days(j, run.archiveNow)

\* C29: two completed processJobs runs in succession with the same batch
\* and no job crossing the 14-day boundary in between: the store after the
\* second run holds the same set of records as after the first, and both
\* runs return the same set of currentJobs.
C29_ProcessJobsIdempotent ==
    (/\ tPrev.ran /\ tLast.ran
     /\ tLast.jobs = tPrev.jobs
     /\ tLast.before = tPrev.after
     /\ NoBoundaryCrossing(tPrev, tLast))
        => /\ Range(tLast.after.jobs) = Range(tPrev.after.jobs)
           /\ Range(tLast.currentJobs) = Range(tPrev.currentJobs)

\* two runs with the same non-empty batch, the first of which changed a
\* store that held records, the second a while later, with records saved
C29_Witness ==
    /\ tPrev.ran /\ tLast.ran
    /\ tLast.jobs = tPrev.jobs /\ tLast.jobs # <<>>
    /\ tLast.before = tPrev.after
    /\ NoBoundaryCrossing(tPrev, tLast)
    /\ tPrev.before.kind = "array" /\ tPrev.before # tPrev.after
    /\ tLast.filterNow > tPrev.filterNow
    /\ Len(tLast.after.jobs) > 0

----------------------------------------------------------------------------
(* Claims about the list filterDuplicates returns *)

\* the array filterDuplicates returned
ReturnedJobs == [k \in 1..Len(dUnique) |-> dJobs[dUnique[k]]]

\* out is the input element job after the loop handled it: the same fields,
\* an id and a fingerprint it had kept
IsInputJob(out, job) ==
    /\ \A f \in {"company", "title", "location", "experience_level", "employment_type"} :
          out[f] = job[f]
    /\ Truthy(job.id) => out.id = job.id
    /\ Truthy(job.fingerprint) => out.fingerprint = job.fingerprint

\* C30: for an input list, the jobs filterDuplicates returns are input
\* elements in input order (a subsequence), no two of them have the same
\* id, no two of them have the same fingerprint, and filterDuplicates of
\* the returned list returns every element of it, unchanged.
C30_UniqueSubsequenceFixpoint ==
    (dPc = "returned" /\ dIsArray) =>
        /\ \A k \in 1..Len(dUnique) :
              /\ dUnique[k] \in 1..Len(dInput)
              /\ IsInputJob(ReturnedJobs[k], dInput[dUnique[k]])
        /\ \A k, l \in 1..Len(dUnique) : k < l => dUnique[k] < dUnique[l]
        /\ \A k, l \in 1..Len(dUnique) :
              k # l => /\ ReturnedJobs[k].id # ReturnedJobs[l].id
                       /\ ReturnedJobs[k].fingerprint # ReturnedJobs[l].fingerprint
        /\ LET again == filterDuplicates(ReturnedJobs, TRUE)
           IN  /\ again.jobs = ReturnedJobs
               /\ again.unique = [k \in 1..Len(ReturnedJobs) |-> k]

\* a call that returned several jobs, one of which got its id and
\* fingerprint in the loop, and dropped one for its id and one, with an id
\* not seen before, for its fingerprint
C30_Witness ==
    /\ dPc = "returned" /\ dIsArray
    /\ Len(dUnique) >= 2
    /\ \E k \in 1..Len(dUnique) : ~Truthy(dInput[dUnique[k]].id)
    /\ \E i \in 1..Len(dInput) :
          /\ i \notin Range(dUnique)
          /\ \E k \in 1..Len(dUnique) : ReturnedJobs[k].id = dJobs[i].id
    /\ \E i \in 1..Len(dInput) :
          /\ i \notin Range(dUnique)
          /\ \A k \in 1..Len(dUnique) : ReturnedJobs[k].id # dJobs[i].id

====
